---- MODULE Spec2Model ----
(***************************************************************************)
(* A model of the crash-risk / signal / sizing pipeline of alert_bot       *)
(* (initial.py, initial_11.py) and of the alerting thresholds of           *)
(* multi_crash_monitor.py.                                                 *)
(*                                                                         *)
(* Numbers are fixed-point integers:                                       *)
(*   - probabilities and risk thresholds in units of 1/400 (the 4-bar      *)
(*     rolling mean of a score in hundredths is exact in that unit);       *)
(*   - strengths (trend, momentum, volume, market) in units of 1/30000;    *)
(*   - volume_ratio and vol_ratio_4h in hundredths; rsi in points;         *)
(*   - the funding rate in units of 0.00001; price_velocity in 0.0001.     *)
(* A pandas NaN is the value NaN below; every comparison with NaN is       *)
(* FALSE, as in pandas/numpy.                                              *)
(***************************************************************************)
EXTENDS Integers, Sequences, FiniteSets, TLC

VARIABLES
    pc,          \* stage of the pipeline instance that is being modelled
    nbar,        \* number of bars classified so far
    raw_window,  \* raw_prob of the last (at most 4) bars, oldest first
    feat,        \* features of the current bar written by the classifier
    bar,         \* indicator values of the current bar read by the signal rules
    sig,         \* signals of the current bar
    vol,         \* volatility-percentile values of the current bar read by the sizing
    sizing,      \* position_size, stop distance and stop_loss_pct of the current bar
    frame,       \* columns of the feature_df of the strategy object built last
    runs,        \* the results of the run_experiment calls made so far, oldest first
    thresholds,  \* the alert thresholds main loaded from the environment
    alert,       \* the warning flags produced last, and who produced them
    series_a,    \* an input series: the bars that follow the common history
    series_b,    \* a second input series with the same history
    common,      \* number of bars after the history on which the two series agree
    table,       \* the input table run_experiment is called on: which columns it
                 \* has, what they hold, and the indicator values of the bar looked at
    clock,       \* the wall clock, in seconds
    cache,       \* the parquet files of the datasets directory
    fetch,       \* the data-loader call in progress or made last
    main         \* the run of a monitor's main in progress or made last

vars == <<pc, nbar, raw_window, feat, bar, sig, vol, sizing, frame, runs, thresholds, alert, series_a, series_b, common, table, clock, cache, fetch, main>>

NaN == -999999

\* The results of a float division by zero.
PosInf == 999999

NegInf == -999998

(***************************************************************************)
(* IEEE / pandas comparisons: FALSE as soon as one side is NaN.            *)
(***************************************************************************)
IsNaN(a) == a = NaN

GT(a, b) == ~IsNaN(a) /\ ~IsNaN(b) /\ a > b

LT(a, b) == ~IsNaN(a) /\ ~IsNaN(b) /\ a < b

GE(a, b) == ~IsNaN(a) /\ ~IsNaN(b) /\ a >= b

\* Series.clip(lo, hi): NaN stays NaN.
Clip(a, lo, hi) == IF IsNaN(a) THEN NaN ELSE IF a < lo THEN lo ELSE IF a > hi THEN hi ELSE a

\* Series.clip(lo, hi) on a value that may be infinite.
ClipFloat(a, lo, hi) ==
    IF a = PosInf THEN hi ELSE IF a = NegInf THEN lo ELSE Clip(a, lo, hi)

\* a / b on floats, the quotient in units of 0.0001: a zero divisor gives an
\* infinity, or NaN for 0 / 0, and raises nothing.
FloatDiv(a, b) ==
    IF IsNaN(a) \/ IsNaN(b) THEN NaN
    ELSE IF b = 0 THEN (IF a = 0 THEN NaN ELSE IF a > 0 THEN PosInf ELSE NegInf)
    ELSE (a * 10000) \div b

RECURSIVE SumSeq(_)
SumSeq(s) == IF s = <<>> THEN 0 ELSE Head(s) + SumSeq(Tail(s))

(***************************************************************************)
(* Crash Risk Scorer: _calculate_market_state_classification, l. 341-401   *)
(***************************************************************************)
\* The eight crash factors of crash_factors, by the name of their series.
FactorNames ==
    {"vol_cascade", "neg_momentum", "volume_div", "trend_exhaustion",
     "funding_stress", "funding_acceleration_rising", "funding_velocity",
     "cross_timeframe_funding"}

\* The weight each factor is multiplied by, in hundredths.
Weight(f) ==
    CASE f = "vol_cascade" -> 25
      [] f = "neg_momentum" -> 20
      [] f = "volume_div" -> 15
      [] f = "trend_exhaustion" -> 20
      [] f = "funding_stress" -> 20
      [] f = "funding_acceleration_rising" -> 10
      [] f = "funding_velocity" -> 10
      [] f = "cross_timeframe_funding" -> 10

RECURSIVE WeightSum(_)
WeightSum(fired) ==
    IF fired = {} THEN 0
    ELSE LET f == CHOOSE x \in fired : TRUE
         IN Weight(f) + WeightSum(fired \ {f})

\* raw_prob = sum(crash_factors).clip(0, 1), in hundredths.
RawProbNoClip(fired) == WeightSum(fired)

RawProb(fired) == Clip(WeightSum(fired), 0, 100)

SmoothWindow == 4

\* raw_prob.rolling(4).mean().fillna(0), in units of 1/400: the mean is NaN
\* until the window holds 4 bars, and fillna(0) turns that into 0.
CrashProbability(window) ==
    IF Len(window) < SmoothWindow THEN 0 ELSE SumSeq(window)

\* The window after one more bar.
Slide(window, raw) ==
    IF Len(window) < SmoothWindow THEN Append(window, raw)
    ELSE Append(Tail(window), raw)

\* Probabilities as written in the source (0.6 -> P(60)), in units of 1/400.
P(hundredths) == 4 * hundredths

EarlyCrashWarning(cp) == cp > P(30) /\ cp =< P(50)

MidCrashPhase(cp) == cp > P(50) /\ cp =< P(70)

LateCrashPhase(cp) == cp > P(70)

HighRisk(cp) == cp > P(60)

(***************************************************************************)
(* Market State Classifier: l. 318-339 and 414-423                         *)
(***************************************************************************)
One == 30000

\* ema_alignment / 1.5 from the two EMA-ordering flags.
TrendStrength(fast_gt_medium, medium_gt_slow, fast_gt_slow) ==
    LET full == IF fast_gt_medium /\ medium_gt_slow THEN 30 ELSE 0
        part == IF fast_gt_slow /\ medium_gt_slow THEN 15 ELSE 0
    IN ((full + part) * One) \div 45

\* np.clip(price_velocity * 25, 0, 1); price_velocity in units of 0.0001.
MomentumStrength(price_velocity) ==
    IF IsNaN(price_velocity) THEN NaN ELSE Clip(price_velocity * 75, 0, One)

\* (0.4 trend + 0.4 momentum + 0.2 volume).clip(0, 1)
MarketStrength(trend, momentum, volume) ==
    IF IsNaN(trend) \/ IsNaN(momentum) \/ IsNaN(volume) THEN NaN
    ELSE Clip((4 * trend + 4 * momentum + 2 * volume) \div 10, 0, One)

\* 0.5 -> S(50), in units of 1/30000.
S(hundredths) == 300 * hundredths

BullMarket(ms, ts, high_risk) == GT(ms, S(50)) /\ GT(ts, S(40)) /\ ~high_risk

BearMarket(ms, mom, high_risk) == LT(ms, S(30)) /\ LT(mom, S(20)) /\ ~high_risk

ConsolidationNoRiskGuard(bull, bear, high_risk) == ~bull /\ ~bear

Consolidation(bull, bear, high_risk) == ~bull /\ ~bear /\ ~high_risk

CrashMode(high_risk) == high_risk

\* Everything the classifier writes for one bar, from the bar's strengths and the
\* smoothing window that already holds the bar's raw_prob.
Classify(window, ts, mom, vs) ==
    LET cp == CrashProbability(window)
        ms == MarketStrength(ts, mom, vs)
        hr == HighRisk(cp)
        bull == BullMarket(ms, ts, hr)
        bear == BearMarket(ms, mom, hr)
    IN [crash_probability |-> cp,
        trend_strength |-> ts,
        momentum_strength |-> mom,
        volume_strength |-> vs,
        market_strength |-> ms,
        early_crash_warning |-> EarlyCrashWarning(cp),
        mid_crash_phase |-> MidCrashPhase(cp),
        late_crash_phase |-> LateCrashPhase(cp),
        high_risk |-> hr,
        med_risk |-> (cp > P(30) /\ cp =< P(60)),
        low_risk |-> (cp =< P(30)),
        bull_market |-> bull,
        bear_market |-> bear,
        consolidation |-> Consolidation(bull, bear, hr),
        crash_mode |-> CrashMode(hr)]

(***************************************************************************)
(* Funding Analyzer and Volatility Detector flags read by the signal rules *)
(* (l. 153, 186-201, 228-229, 244, 404-411).  b is the record of the bar's *)
(* indicator values.                                                       *)
(***************************************************************************)
\* a - b on floats: NaN when one side is NaN.
Sub(a, b) == IF IsNaN(a) \/ IsNaN(b) THEN NaN ELSE a - b

\* funding_rate.diff(8)
FundingMomentum(b) == Sub(b.funding_rate, b.funding_8)

FundingBearishDivergence(b) ==
    GT(b.close, b.close_8) /\ LT(b.funding_rate, b.funding_8)

FundingBullishDivergence(b) ==
    LT(b.close, b.close_8) /\ GT(b.funding_rate, b.funding_8)

FundingExtremePositive(b) == GT(b.funding_rate, 15)

FundingExtremeNegative(b) == LT(b.funding_rate, -15)

FundingTurnedNegative(b) == LT(b.funding_rate, 0) /\ GE(b.funding_prev, 0)

FundingTurnedPositive(b) == GT(b.funding_rate, 0) /\ ~GT(b.funding_prev, 0) /\ ~IsNaN(b.funding_prev)

VolExpanding(b) == GT(b.bb_width, b.bb_width_5)

VolContracting(b) == LT(b.bb_width, b.bb_width_5)

\* funding_stress, in hundredths: the assignments of l. 404-410 in their order,
\* a later one overwriting an earlier one.
FundingStress(b) ==
    IF FundingTurnedPositive(b) THEN -50
    ELSE IF FundingTurnedNegative(b) THEN 70
    ELSE IF LT(FundingMomentum(b), 0) /\ LT(b.funding_rate, -5) THEN -40
    ELSE IF GT(FundingMomentum(b), 0) /\ GT(b.funding_rate, 5) THEN 50
    ELSE IF FundingExtremeNegative(b) THEN -70
    ELSE IF FundingExtremePositive(b) THEN 90
    ELSE 0

(***************************************************************************)
(* Signal Generator: get_adaptive_long_signals, l. 425-553.  f is the      *)
(* record of the bar's classifier features.                                *)
(***************************************************************************)
\* rsi < 60 + (market_strength * 10).clip(0, 10)
RsiBelowDynamicUpper(b, f) ==
    /\ ~IsNaN(b.rsi)
    /\ ~IsNaN(f.market_strength)
    /\ b.rsi * One < 60 * One + Clip(10 * f.market_strength, 0, 10 * One)

BaseLongEntry(b, f) ==
    /\ RsiBelowDynamicUpper(b, f)
    /\ GT(b.rsi, b.rsi_prev)
    /\ GT(b.macd_hist, 0)
    /\ GT(b.macd_hist, b.macd_hist_prev)
    /\ GT(b.volume_ratio, 75)
    /\ GT(b.close, b.ema_medium)
    /\ ~f.high_risk

BullEntry(b, f) ==
    /\ f.bull_market
    /\ BaseLongEntry(b, f)
    /\ b.mtf_trend_aligned
    /\ ~FundingExtremePositive(b)
    /\ GE(FundingMomentum(b), 0)
    /\ ~f.crash_mode

ConsolidationEntry(b, f) ==
    /\ f.consolidation
    /\ LT(b.close, b.bb_middle)
    /\ GT(b.close, b.bb_lower)
    /\ LT(b.rsi, 40)
    /\ GT(b.rsi, b.rsi_prev)
    /\ VolContracting(b)
    /\ GT(b.volume_ratio, 100)
    /\ ~f.high_risk

FundingDivEntry(b, f) ==
    /\ FundingBullishDivergence(b)
    /\ LT(b.rsi, 45)
    /\ LT(b.close, b.ema_medium)
    /\ LT(b.funding_rate, 0)
    /\ GT(b.volume_ratio, 90)
    /\ ~f.high_risk
    /\ f.crash_probability < P(50)

VolBreakoutEntry(b, f) ==
    /\ b.vol_squeeze_prev
    /\ ~b.vol_squeeze
    /\ GT(b.close, b.bb_upper_prev)
    /\ GT(b.volume_ratio, 120)
    /\ b.mtf_trend_aligned
    /\ ~f.high_risk
    /\ GT(f.market_strength, S(30))

CrashRecoveryEntry(b, f) ==
    /\ b.crash_mode_prev
    /\ ~f.crash_mode
    /\ f.crash_probability < P(40)
    /\ (FundingExtremeNegative(b) \/ FundingBullishDivergence(b))
    /\ GT(b.price_velocity, 0)
    /\ LT(b.rsi, 60)
    /\ GT(b.volume_ratio, 100)

LongEntries(b, f) ==
    \/ BullEntry(b, f)
    \/ ConsolidationEntry(b, f)
    \/ FundingDivEntry(b, f)
    \/ VolBreakoutEntry(b, f)
    \/ CrashRecoveryEntry(b, f)

BaseLongExit(b) ==
    \/ GT(b.rsi, 70)
    \/ LT(b.macd_hist, 0)
    \/ LT(b.close, b.ema_fast)

BullExit(b, f) == f.bull_market /\ BaseLongExit(b) /\ GT(b.rsi, 65)

\* close < ema_fast - 1.5 * atr, in tenths
LongStopLossExit(b) ==
    /\ ~IsNaN(b.close) /\ ~IsNaN(b.ema_fast) /\ ~IsNaN(b.atr)
    /\ 10 * b.close < 10 * b.ema_fast - 15 * b.atr

FundingExit(b) ==
    /\ \/ FundingExtremePositive(b) /\ GT(FundingMomentum(b), 0)
       \/ FundingTurnedNegative(b)
    /\ LT(b.close, b.close_prev)

VolExpansionExit(b) ==
    /\ VolExpanding(b)
    /\ GT(b.rsi, 60)
    /\ LT(b.price_velocity, 0)
    /\ LT(b.close, b.ema_medium)

CrashProtectionExit(f) ==
    f.high_risk \/ f.crash_mode \/ f.crash_probability > P(70)

LongExits(b, f) ==
    \/ BullExit(b, f)
    \/ LongStopLossExit(b)
    \/ FundingExit(b)
    \/ VolExpansionExit(b)
    \/ CrashProtectionExit(f)

(***************************************************************************)
(* Signal Generator: get_adaptive_short_signals, l. 555-701                *)
(***************************************************************************)
BaseShortEntry(b, f) ==
    /\ GT(b.rsi, 40)
    /\ LT(b.rsi, b.rsi_prev)
    /\ LT(b.macd_hist, 0)
    /\ LT(b.macd_hist, b.macd_hist_prev)
    /\ GT(b.volume_ratio, 80)
    /\ ~f.high_risk
    /\ ~f.bull_market

BearEntry(b, f) ==
    /\ f.bear_market
    /\ BaseShortEntry(b, f)
    /\ ~b.mtf_trend_aligned
    /\ ~FundingExtremeNegative(b)
    /\ ~GT(FundingMomentum(b), 0) /\ ~IsNaN(FundingMomentum(b))
    /\ LT(f.market_strength, S(40))

ConsolidationShort(b, f) ==
    /\ f.consolidation
    /\ GT(b.close, b.bb_middle)
    /\ LT(b.close, b.bb_upper)
    /\ GT(b.rsi, 60)
    /\ LT(b.rsi, b.rsi_prev)
    /\ VolContracting(b)
    /\ GT(b.volume_ratio, 100)
    /\ ~f.high_risk
    /\ LT(f.market_strength, S(50))

FundingDivShort(b, f) ==
    /\ FundingBearishDivergence(b)
    /\ GT(b.rsi, 55)
    /\ GT(b.close, b.ema_medium)
    /\ GT(b.funding_rate, 0)
    /\ GT(b.volume_ratio, 90)
    /\ ~f.high_risk
    /\ f.crash_probability < P(50)

CrashShortEntry(b, f) ==
    /\ f.crash_mode
    /\ LT(b.price_velocity, 0)
    /\ LT(b.rsi, 40)
    /\ LT(FundingMomentum(b), 0)
    /\ GT(b.volume_ratio, 110)
    /\ (VolExpanding(b) \/ (GT(b.vol_ratio_4h, 110) /\ GT(b.vol_ratio_24h, 130)))
    /\ GT(b.vol_ratio_4h, 100)

EarlyCrashShort(b, f) ==
    /\ f.early_crash_warning
    /\ LT(b.price_velocity, 0)
    /\ LT(FundingMomentum(b), 0)
    /\ b.funding_acceleration_rising
    /\ b.cross_timeframe_funding_divergence
    /\ GT(b.volume_ratio, 80)
    /\ (VolExpanding(b) \/ GT(b.vol_ratio_4h, 100))
    /\ LT(b.rsi, 55)

MidCrashShort(b, f) ==
    /\ f.mid_crash_phase
    /\ LT(FundingMomentum(b), 0)
    /\ LT(b.price_velocity, 0)
    /\ GT(b.volume_ratio, 100)

ShortEntries(b, f) ==
    \/ BearEntry(b, f)
    \/ ConsolidationShort(b, f)
    \/ FundingDivShort(b, f)
    \/ CrashShortEntry(b, f)
    \/ EarlyCrashShort(b, f)
    \/ MidCrashShort(b, f)

BaseShortExit(b) ==
    \/ LT(b.rsi, 30)
    \/ GT(b.macd_hist, 0)
    \/ GT(b.close, b.ema_fast)

BearExit(b, f) == f.bear_market /\ BaseShortExit(b) /\ LT(b.rsi, 35)

\* np.where(vol_ratio_4h > 1.3, 0.8, 1.5), in tenths
CrashStopMultiplier(b) == IF GT(b.vol_ratio_4h, 130) THEN 8 ELSE 15

\* close > ema_fast + crash_stop_multiplier * atr, in tenths
ShortStopLossExit(b) ==
    /\ ~IsNaN(b.close) /\ ~IsNaN(b.ema_fast) /\ ~IsNaN(b.atr)
    /\ 10 * b.close > 10 * b.ema_fast + CrashStopMultiplier(b) * b.atr

FundingCover(b) ==
    /\ \/ FundingExtremeNegative(b) /\ LT(FundingMomentum(b), 0)
       \/ FundingTurnedPositive(b)
    /\ GT(b.close, b.close_prev)

CrashProtectionCover(b, f) ==
    \/ f.high_risk
    \/ f.crash_mode
    \/ f.crash_probability > P(70)
    \/ FundingExtremePositive(b) /\ GT(b.close, b.ema_medium)

ConsolidationExit(b, f) ==
    f.consolidation /\ GT(b.close, b.bb_middle) /\ GT(b.rsi, 50)

ShortExits(b, f) ==
    \/ BearExit(b, f)
    \/ ShortStopLossExit(b)
    \/ FundingCover(b)
    \/ CrashProtectionCover(b, f)
    \/ ConsolidationExit(b, f)
    \/ (FundingStress(b) < -70 /\ GT(b.price_velocity, 0))

(***************************************************************************)
(* Signal Generator: generate_adaptive_signals, l. 703-748, followed by    *)
(* the fillna(False) of generate_signals, l. 856-858 (the rules above are  *)
(* already booleans).                                                      *)
(***************************************************************************)
HighRiskExits(f) == f.high_risk \/ f.crash_mode

\* long_entries after "Remove conflicting entries" and "prioritize exits".
ResolvedLongEntries(le, lx, f) ==
    LET forced == HighRiskExits(f) /\ le
        le1 == le /\ ~forced
        lx1 == lx \/ forced
    IN le1 /\ ~(le1 /\ lx1)

ResolvedLongExits(le, lx, f) == lx \/ (HighRiskExits(f) /\ le)

\* The short entries as the rules return them, nothing removed.
ShortEntriesUnresolved(se, sx, f) == se

ResolvedShortEntries(se, sx, f) ==
    LET forced == HighRiskExits(f) /\ se
        se1 == se /\ ~forced
        sx1 == sx \/ forced
    IN se1 /\ ~(se1 /\ sx1)

ResolvedShortExits(se, sx, f) == sx \/ (HighRiskExits(f) /\ se)

\* "Prevent simultaneous long and short entries", l. 732-736.
FinalLongEntries(le2, se2, f) ==
    le2 /\ ~((le2 /\ se2) /\ (f.bull_market \/ f.consolidation))

FinalShortEntries(le2, se2, f) ==
    se2 /\ ~((le2 /\ se2) /\ f.bear_market)

\* The signals of one bar: what the two rule sets return (the _pre fields),
\* what is stored in feature_df, and the (entries, exits) pair returned.
GenerateAdaptiveSignals(b, f) ==
    LET le == LongEntries(b, f)
        lx == LongExits(b, f)
        se == ShortEntries(b, f)
        sx == ShortExits(b, f)
        le2 == ResolvedLongEntries(le, lx, f)
        se2 == ResolvedShortEntries(se, sx, f)
        lx2 == ResolvedLongExits(le, lx, f)
        sx2 == ResolvedShortExits(se, sx, f)
        le3 == FinalLongEntries(le2, se2, f)
        se3 == FinalShortEntries(le2, se2, f)
    IN [long_entries_pre |-> le, long_exits_pre |-> lx,
        short_entries_pre |-> se, short_exits_pre |-> sx,
        simultaneous_entries |-> le2 /\ se2,
        long_entries |-> le3, long_exits |-> lx2,
        short_entries |-> se3, short_exits |-> sx2,
        entries |-> le3 \/ se3,
        exits |-> lx2 \/ sx2]

(***************************************************************************)
(* Position Sizer: calculate_position_sizing, l. 750-816.  Sizes and       *)
(* multipliers are in units of 0.0001; a product is rounded down to that   *)
(* unit.  v is the record of the bar's volatility-percentile values.       *)
(***************************************************************************)
\* a * b on floats
Mul(a, b) == IF IsNaN(a) \/ IsNaN(b) THEN NaN ELSE (a * b) \div 10000

CrashPhaseMultiplier(f) ==
    IF f.late_crash_phase THEN 8000
    ELSE IF f.mid_crash_phase THEN 13000
    ELSE IF f.early_crash_warning THEN 7000
    ELSE 10000

\* (rank(pct=True) / rolling(50).rank(pct=True)).clip(0.1, 2.0)
VolPercentile(v) == ClipFloat(FloatDiv(v.rank_pct, v.rolling_rank_pct), 1000, 20000)

VolAdjustment(v) ==
    IF IsNaN(VolPercentile(v)) THEN NaN
    ELSE 10000 - Clip(VolPercentile(v) - 10000, 0, 8000)

\* 1.0 - |funding_stress| * 0.8
FundingAdjustment(b) ==
    LET stress == FundingStress(b)
    IN 10000 - (IF stress < 0 THEN -stress ELSE stress) * 80

CrashRiskAdjustment(f) ==
    IF f.crash_mode THEN 2000
    ELSE IF f.med_risk THEN 6000
    ELSE IF f.high_risk THEN 3000
    ELSE 10000

RecoveryCondition(b, f) ==
    /\ b.crash_mode_prev
    /\ f.early_crash_warning
    /\ ~f.crash_mode
    /\ FundingExtremeNegative(b)

SizeMultiplier(b, f, v) ==
    LET product ==
            Mul(Mul(Mul(Mul(Mul((IF IsNaN(f.market_strength) THEN NaN
                                 ELSE (f.market_strength * 15) \div 100 + 1500),
                                VolAdjustment(v)),
                            CrashPhaseMultiplier(f)),
                        FundingAdjustment(b)),
                    CrashRiskAdjustment(f)),
                (IF f.consolidation THEN 7000 ELSE IF f.bull_market THEN 10000 ELSE 8000))
        \* norm_atr > norm_atr.rolling(50).quantile(0.9)
        halved == IF (GT(v.norm_atr, v.vol_q90)) THEN Mul(product, 5000) ELSE product
    IN \* np.maximum(size_multiplier, 0.4), NaN staying NaN
       IF RecoveryCondition(b, f) /\ ~IsNaN(halved) /\ halved < 4000 THEN 4000 ELSE halved

MaxPosition(f) ==
    IF f.high_risk \/ f.crash_mode THEN 3000
    ELSE IF f.bull_market THEN 8000
    ELSE 7000

\* The size multiplier as it is, not clipped.
PositionSizeNoClip(b, f, v) == SizeMultiplier(b, f, v)

\* size_multiplier.clip(0.1, max_position)
PositionSize(b, f, v) == Clip(SizeMultiplier(b, f, v), 1000, MaxPosition(f))

(***************************************************************************)
(* Stop distance and stop_loss_pct: run_experiment, l. 892-905.  norm_atr  *)
(* and the thresholds are in units of 0.0001, the stop distance in 0.0001  *)
(* ATR multiples, stop_loss_pct in 0.0001 percent.                         *)
(***************************************************************************)
\* 1.5 + (norm_atr - low) / (high - low) * 1.5
RawStopDistance(v) ==
    LET q == FloatDiv(Sub(v.norm_atr, v.vol_low_threshold),
                      Sub(v.vol_high_threshold, v.vol_low_threshold))
    IN IF IsNaN(q) \/ q = PosInf \/ q = NegInf THEN q ELSE 15000 + (q * 15) \div 10

\* stop_distance.clip(1.5, 4.0)
StopDistance(v) == ClipFloat(RawStopDistance(v), 15000, 40000)

HighVolatility(v) == GE(v.norm_atr, v.vol_high_threshold)

\* (atr * stop_distance / close) * 100, clipped to [1.0, 8.0]
StopLossPct(f, v) ==
    LET distance == Mul(StopDistance(v),
                        IF f.crash_mode THEN 15000
                        ELSE IF HighVolatility(v) THEN 13000 ELSE 10000)
    IN IF IsNaN(distance) \/ IsNaN(v.norm_atr) THEN NaN
       ELSE Clip((v.norm_atr * distance) \div 100, 10000, 80000)

\* What run_experiment computes for the bar after the signals.
SizeBar(b, f, v) ==
    [position_size |-> PositionSize(b, f, v),
     stop_distance |-> StopDistance(v),
     stop_loss_pct |-> StopLossPct(f, v)]

(***************************************************************************)
(* Inputs of the classifier, one bar at a time.                            *)
(***************************************************************************)
\* The number of bars of the series that is classified.
MaxBars == 5

NoFeat == Classify(<<>>, 0, NaN, 15000)

NoBar == [rsi |-> NaN]

NoSig == [entries |-> FALSE, exits |-> FALSE]

NoSizing == [position_size |-> NaN]

NoThresholds == [pre_crash |-> NaN]

NoAlert == [source |-> "none"]

\* Nothing has been run and no strategy object has been built.
NoExperiment ==
    /\ vol = [norm_atr |-> NaN]
    /\ sizing = NoSizing
    /\ frame = {}
    /\ runs = <<>>

\* The monitor has not started.
NoMonitor ==
    /\ thresholds = NoThresholds
    /\ alert = NoAlert
    /\ clock = 0
    /\ cache = {}
    /\ fetch = [pc |-> "idle"]
    /\ main = [pc |-> "idle"]

\* No second input series is looked at and no input table is described.
NoSeries ==
    /\ series_a = <<>>
    /\ series_b = <<>>
    /\ common = 0
    /\ table = [datetime |-> "none"]

Init ==
    /\ pc = "classify"
    /\ nbar = 0
    /\ raw_window = <<>>
    /\ feat = NoFeat
    /\ bar = NoBar
    /\ sig = NoSig
    /\ NoExperiment
    /\ NoMonitor
    /\ NoSeries

\* One more bar goes through _calculate_market_state_classification.
ClassifyBar ==
    /\ pc = "classify"
    /\ nbar < MaxBars
    /\ nbar' = nbar + 1
    \* The EMA orderings, price_velocity (undefined on warm-up bars, falling,
    \* slowly and fast rising) and the volume_strength values 0, 0.5, 1 of a bar.
    \* The factor combinations a bar is drawn from: none, one, some, all.
    /\ \E fired \in {{}, {"vol_cascade", "neg_momentum"},
                      {"vol_cascade", "neg_momentum", "trend_exhaustion", "funding_stress"},
                      FactorNames},
          o \in {<<FALSE, FALSE, FALSE>>, <<FALSE, TRUE, TRUE>>, <<TRUE, TRUE, TRUE>>},
          pv \in {NaN, -100, 40, 500},
          vs \in {0, 15000, 30000} :
          LET w == Slide(raw_window, RawProb(fired))
          IN /\ raw_window' = w
             /\ feat' = Classify(w, TrendStrength(o[1], o[2], o[3]),
                                 MomentumStrength(pv), vs)
    /\ UNCHANGED <<pc, bar, sig, vol, sizing, frame, runs, thresholds, alert, series_a, series_b, common, table, clock, cache, fetch, main>>

Spec == Init /\ [][ClassifyBar]_vars

(***************************************************************************)
(* One bar through generate_signals (l. 829-860): the constructor computes *)
(* the bar's indicators and classifies it, generate_adaptive_signals       *)
(* resolves its signals.  The indicator values of the bar are the inputs;  *)
(* the crash factors, the strengths and the previous bar's crash_mode are  *)
(* computed from them as the constructor does.                             *)
(***************************************************************************)
\* bb_width = (bb_upper - bb_lower) / bb_middle, in thousandths (l. 88)
BbWidth(upper, lower, middle) == ((upper - lower) * 1000) \div middle

\* The crash factors that fire on the bar (l. 343-367).
FiredFactors(b) ==
    {f \in FactorNames :
        CASE f = "vol_cascade" ->
                b.vol_cascade_1h \/ (GT(b.vol_ratio_4h, 120) /\ GT(b.vol_ratio_24h, 140))
          [] f = "neg_momentum" -> b.neg_momentum
          [] f = "volume_div" -> b.close_above_5 /\ LT(b.volume_ratio, 80)
          [] f = "trend_exhaustion" -> b.price_extreme /\ b.momentum_slowing
          [] f = "funding_stress" ->
                FundingExtremePositive(b) \/ FundingTurnedNegative(b) \/ b.funding_jerk_negative
          [] f = "funding_acceleration_rising" -> b.funding_acceleration_rising
          [] f = "funding_velocity" -> b.funding_velocity_high
          [] f = "cross_timeframe_funding" -> b.cross_timeframe_funding_divergence}

\* The classifier's output for the bar.
ClassifyInput(b) ==
    Classify(Slide(b.raw_history, RawProb(FiredFactors(b))),
             TrendStrength(GT(b.ema_fast, b.ema_medium), GT(b.ema_medium, b.ema_slow),
                           GT(b.ema_fast, b.ema_slow)),
             MomentumStrength(b.price_velocity),
             \* (volume_ratio > 1.0).rolling(3).mean(): the two bars before and this one.
             (((b.volume_confirmed_before + (IF GT(b.volume_ratio, 100) THEN 1 ELSE 0)) * One) \div 3))

\* <<volume_ratio, number of the two bars before with volume_ratio > 1.0>>
VolumePairs == {<<70, 0>>, <<95, 1>>, <<125, 2>>}

\* <<funding_rate, funding_rate.shift(1), funding_rate.shift(8),
\*   funding_acceleration_rising and cross_timeframe_funding_divergence>>
FundingCases ==
    {<<-20, -19, -18, TRUE>>, <<-20, -21, -22, FALSE>>,
     <<-3, 1, -1, TRUE>>, <<-3, -4, -5, FALSE>>,
     <<3, -1, 5, FALSE>>, <<3, 2, 1, FALSE>>, <<3, 4, 5, TRUE>>,
     <<20, 19, 18, FALSE>>}

\* raw_prob of the four bars before the bar.
RawHistories ==
    {<<0, 0, 0, 0>>, <<100, 50, 50, 45>>, <<60, 60, 60, 60>>, <<100, 100, 100, 100>>}

MakeBar(r, m, v, c, e, bm, bo, vt, fc, pv, h, ff) ==
    [close |-> 100, close_prev |-> c[1], close_8 |-> c[2],
     rsi |-> r[1], rsi_prev |-> r[2],
     macd_hist |-> m[1], macd_hist_prev |-> m[2],
     volume_ratio |-> v[1], volume_confirmed_before |-> v[2],
     ema_fast |-> e[1], ema_medium |-> e[2], ema_slow |-> e[3], atr |-> 2,
     bb_lower |-> 90, bb_middle |-> bm, bb_upper |-> 110, bb_upper_prev |-> bo[3],
     bb_width |-> BbWidth(110, 90, bm), bb_width_5 |-> vt[1],
     vol_squeeze_prev |-> bo[1], vol_squeeze |-> bo[2],
     vol_ratio_4h |-> vt[2], vol_ratio_24h |-> vt[3],
     funding_rate |-> fc[1], funding_prev |-> fc[2], funding_8 |-> fc[3],
     funding_acceleration_rising |-> fc[4],
     cross_timeframe_funding_divergence |-> fc[4],
     price_velocity |-> pv, mtf_trend_aligned |-> bo[4],
     raw_history |-> h,
     neg_momentum |-> ff, vol_cascade_1h |-> ff, close_above_5 |-> ff,
     price_extreme |-> ff, momentum_slowing |-> ff,
     funding_jerk_negative |-> ff, funding_velocity_high |-> ff,
     crash_mode_prev |-> CrashMode(HighRisk(CrashProbability(h)))]

InitSignals ==
    /\ pc = "signals"
    /\ nbar = 0
    /\ raw_window = <<>>
    /\ feat = NoFeat
    /\ sig = NoSig
    /\ NoExperiment
    /\ NoMonitor
    /\ NoSeries
    \* m is <<macd_hist, macd_hist.shift(1)>>, c is <<close.shift(1),
    \* close.shift(8)>> of a close of 100, bm is bb_middle, pv is price_velocity,
    \* ff says whether the factor conditions no signal rule reads hold.
    \* <<rsi, rsi.shift(1)>>
    /\ \E r \in {<<28, 30>>, <<38, 36>>, <<38, 40>>, <<52, 54>>,
                  <<58, 56>>, <<62, 64>>, <<68, 66>>, <<72, 70>>},
          m \in {<<5, 3>>, <<-5, -3>>}, v \in VolumePairs,
          c \in {<<101, 102>>, <<99, 98>>},
          \* <<ema_fast, ema_medium, ema_slow>>, atr being 2
          e \in {<<98, 97, 90>>, <<106, 103, 90>>, <<94, 97, 110>>,
                 <<101, 103, 90>>, <<101, 97, 110>>, <<106, 103, 110>>},
          bm \in {96, 104},
          \* <<vol_squeeze.shift(1), vol_squeeze, bb_upper.shift(1), mtf_trend_aligned>>
          bo \in {<<TRUE, FALSE, 99, TRUE>>, <<FALSE, FALSE, 111, TRUE>>,
                  <<FALSE, FALSE, 111, FALSE>>},
          \* <<bb_width.shift(5), vol_ratio_4h, vol_ratio_24h>>
          vt \in {<<250, 90, 100>>, <<250, 105, 100>>, <<150, 135, 145>>},
          fc \in FundingCases, pv \in {-100, 500},
          h \in RawHistories, ff \in BOOLEAN :
          bar = MakeBar(r, m, v, c, e, bm, bo, vt, fc, pv, h, ff)

\* generate_signals on the bar.
GenerateSignals ==
    /\ pc = "signals"
    /\ pc' = "resolved"
    /\ raw_window' = Slide(bar.raw_history, RawProb(FiredFactors(bar)))
    /\ feat' = ClassifyInput(bar)
    /\ sig' = GenerateAdaptiveSignals(bar, feat')
    /\ UNCHANGED <<nbar, bar, vol, sizing, frame, runs, thresholds, alert, series_a, series_b, common, table, clock, cache, fetch, main>>

SpecSignals == InitSignals /\ [][GenerateSignals]_vars

(***************************************************************************)
(* run_experiment on one bar, called MaxRuns times on the same input       *)
(* (l. 863-947): generate_signals builds a first strategy object and       *)
(* returns the signals, then a second object is built for the features,    *)
(* the sizing and the stops.  A feature_df is the set of its columns; the  *)
(* values of the columns are those of feat, sig and sizing.                *)
(***************************************************************************)
MaxRuns == 2

\* Columns the constructor writes (the ones the model gives a value to).
FeatureColumns ==
    {"rsi", "macd_hist", "norm_atr", "volume_ratio", "returns", "price_velocity",
     "funding_rate", "vol_low_threshold", "vol_high_threshold",
     "crash_probability", "market_strength", "bull_market", "crash_mode"}

\* Columns run_experiment adds to the copy of the features it returns.
ResultColumns ==
    {"position_size", "stop_loss_pct", "entry_signal", "exit_signal", "signal",
     "position", "portfolio_value", "cash", "returns"}

\* A feature_df that keeps the columns of the object built before.
SharedFeatureDf(previous) == previous

\* self.feature_df = pd.DataFrame(index=df.index): a new frame without columns,
\* whatever the frame of the object built before holds.
NewFeatureDf(previous) == {}

\* The frame of a strategy object when its constructor returns.
ConstructedFrame(previous) == NewFeatureDf(previous) \cup FeatureColumns

\* result_df['signal']: 0.0, masked to 1.0 by entries, then to -1.0 by exits.
SignalColumn(sg) == IF sg.exits THEN -1 ELSE IF sg.entries THEN 1 ELSE 0

\* Who wrote the values each column of result_df holds: every column of
\* all_features is copied in (l. 922-924), then run_experiment assigns the
\* signals and the portfolio metrics (l. 927-940), replacing what a column of
\* the same name held.
ColumnWriter(all_features) ==
    [c \in all_features \cup ResultColumns |->
        IF c \in ResultColumns THEN "run_experiment" ELSE "FuturesTradingStrategy"]

RunResult(all_features, sg, sz) ==
    [columns |-> all_features \cup ResultColumns,
     writer |-> ColumnWriter(all_features),
     entry_signal |-> sg.entries,
     exit_signal |-> sg.exits,
     signal |-> SignalColumn(sg),
     position_size |-> sz.position_size,
     stop_loss_pct |-> sz.stop_loss_pct]

MakeVol(vc, rank) ==
    [norm_atr |-> vc[1], vol_low_threshold |-> vc[2], vol_high_threshold |-> vc[3],
     vol_q90 |-> vc[4], rolling_rank_pct |-> vc[5],
     rank_pct |-> IF IsNaN(vc[5]) THEN NaN ELSE rank]

InitExperiment ==
    /\ pc = "run"
    /\ nbar = 0
    /\ raw_window = <<>>
    /\ feat = NoFeat
    /\ sig = NoSig
    /\ sizing = NoSizing
    /\ frame = {}
    /\ runs = <<>>
    /\ NoMonitor
    /\ NoSeries
    /\ \E r \in {<<38, 36>>, <<62, 64>>}, v \in VolumePairs,
          e \in {<<98, 97, 90>>, <<101, 103, 90>>, <<94, 97, 110>>},
          fc \in FundingCases, pv \in {NaN, -100, 500},
          h \in RawHistories, ff \in BOOLEAN :
          bar = MakeBar(r, <<-5, -3>>, v, <<101, 102>>, e, 96,
                        <<FALSE, FALSE, 111, TRUE>>, <<150, 135, 145>>, fc, pv, h, ff)
    \* <<norm_atr, vol_low_threshold, vol_high_threshold, rolling 0.9 quantile,
    \*   rolling(50).rank(pct=True)>>; the first one is a warm-up bar.
    /\ \E vc \in {<<200, NaN, NaN, NaN, NaN>>,
                   <<200, 150, 250, 300, 5000>>, <<300, 150, 250, 280, 10000>>,
                   <<300, 150, 250, 350, 9000>>, <<100, 150, 250, 300, 1000>>,
                   <<200, 200, 200, 200, 5000>>, <<300, 200, 200, 200, 10000>>,
                   <<100, 200, 200, 200, 200>>, <<600, 150, 250, 300, 10000>>,
                   <<50, 150, 250, 300, 200>>},
          rank \in {2000, 6000, 10000} : vol = MakeVol(vc, rank)

\* entries, exits = generate_signals(val_df), l. 880
RunGenerateSignals ==
    /\ pc = "run"
    /\ Len(runs) < MaxRuns
    /\ pc' = "signalled"
    /\ raw_window' = Slide(bar.raw_history, RawProb(FiredFactors(bar)))
    /\ feat' = ClassifyInput(bar)
    /\ sig' = GenerateAdaptiveSignals(bar, feat')
    \* Columns generate_adaptive_signals adds to the object's feature_df.
    /\ frame' = ConstructedFrame(frame) \cup ({"long_entries", "long_exits", "short_entries", "short_exits"})
    /\ UNCHANGED <<nbar, bar, vol, sizing, runs, thresholds, alert, series_a, series_b, common, table, clock, cache, fetch, main>>

\* The rest of run_experiment: the second strategy object, its features, the
\* sizing, the stops and the result frame.
RunBacktest ==
    /\ pc = "signalled"
    /\ LET all_features == ConstructedFrame(frame)
       IN /\ feat' = ClassifyInput(bar)
          /\ sizing' = SizeBar(bar, feat', vol)
          /\ frame' = all_features \cup {"position_size_calc"}
          /\ runs' = Append(runs, RunResult(all_features, sig, sizing'))
    /\ pc' = IF Len(runs) + 1 < MaxRuns THEN "run" ELSE "done"
    /\ UNCHANGED <<nbar, raw_window, bar, sig, vol, thresholds, alert, series_a, series_b, common, table, clock, cache, fetch, main>>

SpecExperiment == InitExperiment /\ [][RunGenerateSignals \/ RunBacktest]_vars

(***************************************************************************)
(* The warning flags.  initial_11.py, _calculate_crash_probability,        *)
(* l. 155-166: five weighted signals, a 3-bar mean with min_periods=1 and  *)
(* fixed thresholds.  multi_crash_monitor.py: main reads the thresholds    *)
(* from the environment (l. 351-356), check_crash_probability_for_symbol   *)
(* compares the latest crash_probability with them (l. 180-183).           *)
(***************************************************************************)
\* weights, in hundredths
Weight11(f) ==
    CASE f = "vol_spike" -> 40
      [] f = "neg_accel" -> 20
      [] f = "vol_divergence" -> 20
      [] f = "extreme_rsi" -> 15
      [] f = "recent_drop" -> 5

RECURSIVE WeightSum11(_)
WeightSum11(fired) ==
    IF fired = {} THEN 0
    ELSE LET f == CHOOSE x \in fired : TRUE
         IN Weight11(f) + WeightSum11(fired \ {f})

SmoothWindow11 == 3

\* The window of rolling(3, min_periods=1) after one more bar.
Slide11(window, raw) ==
    IF Len(window) < SmoothWindow11 THEN Append(window, raw)
    ELSE Append(Tail(window), raw)

\* rolling(3, min_periods=1).mean() >= threshold, both in hundredths: the mean
\* is taken over the bars there are.
MeanAtLeast11(window, hundredths) == SumSeq(window) >= hundredths * Len(window)

Flags11(window) ==
    [source |-> "initial_11",
     pre_crash_warning |-> MeanAtLeast11(window, 20),
     early_warning |-> MeanAtLeast11(window, 40),
     crisis_alert |-> MeanAtLeast11(window, 60)]

\* The thresholds check_crash_probability_for_symbol uses when it gets None.
DefaultThresholds == [pre_crash |-> P(20), early_warning |-> P(40), crisis |-> P(60)]

\* float(os.environ.get(...)): what the three variables may hold.
EnvThresholds == {P(10), P(20), P(40), P(60), P(90)}

\* crash_prob >= thresholds[...]
FlagsMonitor(crash_prob, th) ==
    [source |-> "monitor",
     pre_crash_warning |-> GE(crash_prob, th.pre_crash),
     early_warning |-> GE(crash_prob, th.early_warning),
     crisis_alert |-> GE(crash_prob, th.crisis)]

InitAlert ==
    /\ pc = "config"
    /\ nbar = 0
    /\ raw_window = <<>>
    /\ feat = NoFeat
    /\ bar = NoBar
    /\ sig = NoSig
    /\ NoExperiment
    /\ NoMonitor
    /\ NoSeries

\* One more bar goes through initial_11's _calculate_crash_probability.
CalculateCrashProbability11 ==
    /\ nbar < MaxBars
    /\ nbar' = nbar + 1
    /\ \E fired \in {{}, {"vol_spike"}, {"neg_accel", "vol_divergence"},
                      {"vol_spike", "neg_accel"}, {"extreme_rsi", "recent_drop"},
                      {"vol_spike", "neg_accel", "vol_divergence", "extreme_rsi",
                       "recent_drop"}} :
          /\ raw_window' = Slide11(raw_window, WeightSum11(fired))
          /\ alert' = Flags11(raw_window')
    /\ UNCHANGED <<pc, feat, bar, sig, vol, sizing, frame, runs, thresholds, series_a, series_b, common, table, clock, cache, fetch, main>>

\* main: the thresholds are read from the environment and used as they are.
LoadThresholds ==
    /\ pc = "config"
    /\ pc' = "monitor"
    /\ \E pre \in EnvThresholds, early \in EnvThresholds, crisis \in EnvThresholds :
          thresholds' = [pre_crash |-> pre, early_warning |-> early, crisis |-> crisis]
    /\ UNCHANGED <<nbar, raw_window, feat, bar, sig, vol, sizing, frame, runs, alert, series_a, series_b, common, table, clock, cache, fetch, main>>

\* A function without the try/except: a failure leaves it as an exception.
SymbolMetricsUncaught(outcome, crash_prob, trend_strength, th) ==
    IF outcome # "ok" THEN [source |-> "raised"]
    ELSE FlagsMonitor(crash_prob, th) @@
         [fields |-> {"symbol", "timestamp", "price", "change_24h", "crash_probability",
                      "pre_crash_warning", "early_warning", "crisis_alert", "rsi",
                      "atr_ratio", "volatility", "trend_strength", "momentum_strength",
                      "market_strength", "funding_stress", "vol_ratio_4h"},
          crash_probability |-> crash_prob,
          trend_strength |-> trend_strength]

\* What check_crash_probability_for_symbol returns (l. 134-226): the dict of
\* l. 205-222 with its 16 fields, of which the model gives a value to the flags,
\* crash_probability and trend_strength; or None, which leaves no flags, when
\* anything in the body raised (except Exception, l. 224-226).
SymbolMetrics(outcome, crash_prob, trend_strength, th) ==
    IF outcome # "ok" THEN NoAlert
    ELSE FlagsMonitor(crash_prob, th) @@
         [fields |-> {"symbol", "timestamp", "price", "change_24h", "crash_probability",
                      "pre_crash_warning", "early_warning", "crisis_alert", "rsi",
                      "atr_ratio", "volatility", "trend_strength", "momentum_strength",
                      "market_strength", "funding_stress", "vol_ratio_4h"},
          crash_probability |-> crash_prob,
          trend_strength |-> trend_strength]

\* check_crash_probability_for_symbol, called by main with its thresholds or
\* by a caller that passes none.  The fetch or the strategy may fail; otherwise
\* the strategy object of initial.py is built on the fetched bars and its
\* latest crash_probability and trend_strength are read (l. 171-193).
CheckCrashProbabilityForSymbol ==
    /\ \E outcome \in {"ok", "failed"},
          h \in {<<0, 0, 0, 0>>, <<100, 100, 100, 100>>},
          latest \in {[fired |-> {}, aligned |-> TRUE], [fired |-> FactorNames, aligned |-> FALSE]},
          arg \in {thresholds, NoThresholds} :
          alert' = SymbolMetrics(outcome,
                                 CrashProbability(Slide(h, RawProb(latest.fired))),
                                 TrendStrength(latest.aligned, latest.aligned, latest.aligned),
                                 \* The thresholds argument: None stands for the defaults.
                                 (IF arg = NoThresholds THEN DefaultThresholds ELSE arg))
    /\ UNCHANGED <<pc, nbar, raw_window, feat, bar, sig, vol, sizing, frame, runs, thresholds,
                   series_a, series_b, common, table, clock, cache, fetch, main>>

SpecAlert == InitAlert /\ [][CalculateCrashProbability11 \/ LoadThresholds
                           \/ CheckCrashProbabilityForSymbol]_vars

(***************************************************************************)
(* What a bar's values are computed from.  A series is a sequence of       *)
(* hourly bars [close, norm_atr] that starts at midnight; the value of an  *)
(* indicator at bar i (counted from 1) is computed from the whole series,  *)
(* as the constructor does.  Two series share a history of HistoryBars     *)
(* bars, long enough for the 50-bar rank window and for the 21 four-hour   *)
(* bins the slow 4h EMA waits for, and go on with the bars of series_a and *)
(* series_b.                                                               *)
(***************************************************************************)
HistoryBars == 84

\* The shared history: a quiet stretch, then 50 bars of changing volatility.
History ==
    [k \in 1..HistoryBars |->
        [close |-> 100,
         norm_atr |-> IF k =< 34 THEN 100 ELSE IF k % 5 < 2 THEN 400 ELSE 150]]

\* returns = close.pct_change() in units of 0.0001 (initial.py l. 119)
ReturnsAt(series, i) ==
    IF i = 1 THEN NaN
    ELSE ((series[i].close - series[i - 1].close) * 10000) \div series[i - 1].close

\* close.resample('4h').last(): the last close of each 4-hour bin; the last
\* bin of the series may be incomplete (initial.py l. 131).
Close4h(series) ==
    [b \in 1..((Len(series) + 3) \div 4) |->
        series[IF 4 * b < Len(series) THEN 4 * b ELSE Len(series)].close]

\* vbt.MA.run(x, window, ewm=True).ma at bin b, in thousandths, before the
\* warm-up is looked at: ema[1] = x[1], ema[b] = ema[b-1] + 2 (x[b] - ema[b-1]) / (window + 1).
RECURSIVE Ewm(_, _, _)
Ewm(x, window, b) ==
    IF b = 1 THEN 1000 * x[1]
    ELSE ((window - 1) * Ewm(x, window, b - 1) + 2000 * x[b]) \div (window + 1)

\* The moving average is NaN until it has seen window values.
Ma(x, window, b) == IF b < window THEN NaN ELSE Ewm(x, window, b)

\* mtf_trend.reindex(close.index, method='ffill') at bar i: the value of the
\* 4-hour bin the bar lies in (initial.py l. 131-135).
MtfTrendAlignedAt(series, i) ==
    LET b == (i + 3) \div 4
    IN GT(Ma(Close4h(series), 9, b), Ma(Close4h(series), 21, b))

CountLess(series, from, to, x) ==
    Cardinality({k \in from..to : series[k].norm_atr < x})

CountEqual(series, from, to, x) ==
    Cardinality({k \in from..to : series[k].norm_atr = x})

\* rank(pct=True) of bar i among the bars from..to, in units of 0.0001: the
\* average rank of the ties over the number of bars.
RankPct(series, from, to, i) ==
    LET x == series[i].norm_atr
    IN ((2 * CountLess(series, from, to, x) + CountEqual(series, from, to, x) + 1) * 5000)
           \div (to - from + 1)

RankWindow == 50

\* The two ranks of calculate_position_sizing, l. 766, at bar i.
RanksAt(series, i) ==
    [rank_pct |-> RankPct(series, 1, Len(series), i),
     rolling_rank_pct |->
        IF i < RankWindow THEN NaN ELSE RankPct(series, i - RankWindow + 1, i, i)]

\* vol_adjustment at bar i, which position_size is a product of.
VolAdjustmentAt(series, i) == VolAdjustment(RanksAt(series, i))

\* The (k+1)-th smallest norm_atr of the series.
KthSmallest(series, k) ==
    CHOOSE x \in {series[j].norm_atr : j \in 1..Len(series)} :
        /\ CountLess(series, 1, Len(series), x) =< k
        /\ k < CountLess(series, 1, Len(series), x) + CountEqual(series, 1, Len(series), x)

\* initial_11.py l. 118-119, 126, 131: in_crisis_mode at bar i, the volatility
\* level above the 0.75 quantile of the whole series (linear interpolation).
InCrisisMode11At(series, i) ==
    LET n == Len(series)
        k == (3 * (n - 1)) \div 4
        rest == (3 * (n - 1)) % 4
        lo == KthSmallest(series, k)
        hi == IF k + 1 < n THEN KthSmallest(series, k + 1) ELSE lo
    IN 4 * series[i].norm_atr > 4 * lo + rest * (hi - lo)

\* Every value of bar i the model computes from a series.
ValuesAt(series, i) ==
    [returns |-> ReturnsAt(series, i),
     mtf_trend_aligned |-> MtfTrendAlignedAt(series, i),
     vol_adjustment |-> VolAdjustmentAt(series, i),
     in_crisis_mode_11 |-> InCrisisMode11At(series, i)]

\* The number of bars a series goes on after the history.
MaxTail == 3

TailBars == [close : {99, 101}, norm_atr : {300, 500}]

InitLook ==
    /\ pc = "look"
    /\ nbar = 0
    /\ raw_window = <<>>
    /\ feat = NoFeat
    /\ bar = NoBar
    /\ sig = NoSig
    /\ NoExperiment
    /\ NoMonitor
    /\ NoSeries

\* Both series go on with the same bar.
AppendCommonBar ==
    /\ series_a = series_b
    /\ Len(series_a) < MaxTail
    /\ \E x \in TailBars :
          /\ series_a' = Append(series_a, x)
          /\ series_b' = Append(series_b, x)
    /\ common' = common + 1
    /\ UNCHANGED <<pc, nbar, raw_window, feat, bar, sig, vol, sizing, frame, runs, thresholds, alert, table, clock, cache, fetch, main>>

\* Only the first series goes on: it extends the second, or differs from it
\* after the bars they have in common.
AppendBarA ==
    /\ Len(series_a) < MaxTail
    /\ \E x \in TailBars : series_a' = Append(series_a, x)
    /\ UNCHANGED <<pc, nbar, raw_window, feat, bar, sig, vol, sizing, frame, runs, thresholds, alert,
                   series_b, common, table, clock, cache, fetch, main>>

\* Only the second series goes on.
AppendBarB ==
    /\ Len(series_b) < MaxTail
    /\ series_a # series_b
    /\ \E x \in TailBars : series_b' = Append(series_b, x)
    /\ UNCHANGED <<pc, nbar, raw_window, feat, bar, sig, vol, sizing, frame, runs, thresholds, alert,
                   series_a, common, table, clock, cache, fetch, main>>

SpecLook == InitLook /\ [][AppendCommonBar \/ AppendBarA \/ AppendBarB]_vars

(***************************************************************************)
(* C1: on every bar, 0 <= crash_probability <= 1                           *)
(***************************************************************************)
\* C1: the crash_probability of every bar lies in [0, 1] (0..400 in units of
\* 1/400), warm-up bars and all-factor bars included.
C1_CrashProbabilityBounded ==
    /\ feat.crash_probability >= 0
    /\ feat.crash_probability =< P(100)

\* Four bars in a row on which every factor fired: the clipped score is 1.
C1_Witness ==
    /\ Len(raw_window) = SmoothWindow
    /\ \A i \in 1..SmoothWindow : raw_window[i] = 100
    /\ feat.crash_probability = P(100)

(***************************************************************************)
(* C2: exactly one regime per bar                                          *)
(***************************************************************************)
\* C2: on every bar exactly one of bull_market, bear_market, consolidation,
\* crash_mode is true, also when the strengths are NaN.
C2_ExactlyOneRegime ==
    Cardinality({r \in {"bull_market", "bear_market", "consolidation", "crash_mode"} :
                     feat[r]}) = 1

\* A crash bar whose strengths are undefined, and which would otherwise be a
\* consolidation bar.
C2_Witness ==
    /\ feat.crash_mode
    /\ IsNaN(feat.market_strength)
    /\ ~feat.consolidation

(***************************************************************************)
(* C4: an exit beats an entry of the same direction                        *)
(***************************************************************************)
\* C4: a bar on which an entry rule and an exit rule of the same direction
\* both fire before resolution is returned with exits = true, entries = false.
C4_ExitBeatsEntry ==
    (/\ pc = "resolved"
     /\ \/ sig.long_entries_pre /\ sig.long_exits_pre
        \/ sig.short_entries_pre /\ sig.short_exits_pre)
        => (sig.exits /\ ~sig.entries)

(***************************************************************************)
(* C5: a high-risk bar forces the exit and forbids entries                 *)
(***************************************************************************)
\* C5: on a bar where high_risk / crash_mode holds, the returned signals are
\* exits = true and entries = false, whatever entry rules fire.
C5_HighRiskForcesExit ==
    (pc = "resolved" /\ (feat.high_risk \/ feat.crash_mode))
        => (sig.exits /\ ~sig.entries)

\* A high-risk bar on which crash_short_entry fired and was resolved away.
C5_Witness ==
    /\ pc = "resolved"
    /\ feat.high_risk
    /\ CrashShortEntry(bar, feat)
    /\ sig.short_entries_pre
    /\ sig.exits
    /\ ~sig.entries

(***************************************************************************)
(* C6: simultaneous long and short entries                                 *)
(***************************************************************************)
\* C6: when a long and a short entry both reach the simultaneous-entry step,
\* the long one is kept and the short one dropped on a bull_market or
\* consolidation bar, the short one kept and the long one dropped on a
\* bear_market bar.
C6_RegimePreference ==
    (pc = "resolved" /\ sig.simultaneous_entries)
        => /\ (feat.bull_market \/ feat.consolidation)
                => (sig.long_entries /\ ~sig.short_entries)
           /\ feat.bear_market
                => (sig.short_entries /\ ~sig.long_entries)

(***************************************************************************)
(* C7: the ranges of stop_loss_pct and position_size                       *)
(***************************************************************************)
\* C7: in the output of run_experiment a defined stop_loss_pct lies in
\* [1.0, 8.0] and a defined position_size in [0.1, 0.8], at most 0.3 on a
\* high-risk / crash bar and at most 0.7 on a bar that is not bull_market.
C7_SizingRanges ==
    \A i \in 1..Len(runs) :
        /\ ~IsNaN(runs[i].stop_loss_pct)
            => (runs[i].stop_loss_pct >= 10000 /\ runs[i].stop_loss_pct =< 80000)
        /\ ~IsNaN(runs[i].position_size)
            => /\ runs[i].position_size >= 1000
               /\ runs[i].position_size =< 8000
               /\ (feat.high_risk \/ feat.crash_mode) => runs[i].position_size =< 3000
               /\ ~feat.bull_market => runs[i].position_size =< 7000

\* A recovery bar after a crash: the size is lifted to 0.4 and kept under the
\* cap of its regime, the stop is clipped at 8 percent.
C7_Witness ==
    /\ Len(runs) > 0
    /\ RecoveryCondition(bar, feat)
    /\ ~feat.bull_market
    /\ runs[1].position_size = 4000
    /\ runs[1].stop_loss_pct = 80000

(***************************************************************************)
(* C8: equal volatility thresholds                                         *)
(***************************************************************************)
\* C8: on a bar where vol_high_threshold - vol_low_threshold = 0, the stop
\* distance before the regime widening is the minimum 1.5 and stop_loss_pct is
\* defined, whatever norm_atr is.
C8_ZeroRangeFallsBack ==
    (/\ Len(runs) > 0
     /\ ~IsNaN(vol.vol_low_threshold)
     /\ vol.vol_high_threshold - vol.vol_low_threshold = 0)
        => (sizing.stop_distance = 15000 /\ ~IsNaN(runs[1].stop_loss_pct))

C3_FlagsNest ==
    alert # NoAlert
        => /\ alert.crisis_alert => alert.early_warning
           /\ alert.early_warning => alert.pre_crash_warning

(***************************************************************************)
(* C9: no look-ahead                                                       *)
(***************************************************************************)
\* C9: two input series that agree on the bars up to i, and differ or end
\* after it, yield the same values at bar i (stated for the bars that follow
\* the shared history).
C9_NoLookAhead ==
    \A i \in (HistoryBars + 1)..(HistoryBars + common) :
        ValuesAt((History \o series_a), i) = ValuesAt((History \o series_b), i)

(***************************************************************************)
(* C11: the smoothing has min_periods=1 semantics                          *)
(***************************************************************************)
\* C11: crash_probability at a bar is the mean of raw_prob over the (at most
\* four) bars up to it, also on the first three bars, where it is the mean of
\* the bars available so far.  crash_probability is in units of 1/400 and
\* raw_prob in hundredths, so mean * (number of bars) = 4 * sum / 100.
C11_MeanOfAvailableBars ==
    Len(raw_window) > 0
        => feat.crash_probability * Len(raw_window) = 4 * SumSeq(raw_window)

(***************************************************************************)
(* C12: the factor weights sum to at most 1                                *)
(***************************************************************************)
\* C12: on every bar the weighted sum of the crash factors that fire is at
\* most 1 (100 hundredths) before raw_prob is clipped.
C12_WeightedSumAtMostOne ==
    pc = "resolved" => WeightSum(FiredFactors(bar)) =< 100

(***************************************************************************)
(* C13: misordered thresholds are rejected at configuration time           *)
(***************************************************************************)
\* C13: main gets past its configuration, to the stage where it has every
\* symbol analysed with its thresholds, only when the thresholds are ordered
\* pre_crash =< early_warning =< crisis.
C13_MisorderedRejected ==
    pc = "monitor"
        => /\ thresholds.pre_crash =< thresholds.early_warning
           /\ thresholds.early_warning =< thresholds.crisis

(***************************************************************************)
(* run_experiment on an input table (l. 863-947; the constructor,          *)
(* l. 35-54).  The table is described by the required columns it has, by   *)
(* its index, by what its funding_rate, volume and price columns hold, by  *)
(* its length, and by `values` and `vol`: the indicator values that a long *)
(* series with moving prices, traded volume and the funding given has at   *)
(* the bar looked at.  A short table has 10 bars and the bar looked at is  *)
(* its last one.                                                           *)
(***************************************************************************)
\* The column kept as it is: a NaN of the column stays a NaN.
FundingRateNoFill(t, x) == IF t.funding = "absent" THEN 0 ELSE x

\* self.funding_rate at a bar (l. 43-46): the column's value x with NaN filled
\* by 0, or 0 when the table has no funding_rate column.
FundingRate(t, x) ==
    IF t.funding = "absent" THEN 0 ELSE IF IsNaN(x) THEN 0 ELSE x

\* A ratio whose undefined values are filled with 1.
VolumeRatioFillOne(volume, volume_ma) == 100

\* volume_ratio = volume / volume_ma, in hundredths (l. 114).
VolumeRatio(volume, volume_ma) ==
    LET q == FloatDiv(volume, volume_ma)
    IN IF IsNaN(q) \/ q = PosInf \/ q = NegInf THEN q ELSE q \div 100

\* What raises before the first indicator is computed: generate_signals finds
\* neither a DatetimeIndex nor a datetime column (l. 846-850), or the
\* constructor reads a column that is not there (l. 37-40).
PipelineRaises(t) ==
    \/ t.datetime = "missing"
    \/ {"close", "high", "low", "volume"} \ t.columns # {}

\* The indicator values the constructor computes at the bar looked at
\* (l. 56-248 and the factor conditions of l. 343-367).  On the last bar of a
\* 10-bar table every indicator with a window of more than 10 bars is NaN and
\* every condition that compares one is false.  On a table with a constant
\* price the differences are 0, the averages are the price, the RSI is 0/0
\* and every strict comparison of a value with its own average is false.
TableBar(t) ==
    LET g == t.values
        short == t.length = "short"
        flat == t.price = "constant"
        unfunded == t.funding # "given"
        column(x) == IF t.funding = "zeros" THEN 0 ELSE IF t.funding = "nans" THEN NaN ELSE x
        windowed(x, constant) == IF short THEN NaN ELSE IF flat THEN constant ELSE x
        condition(x) == IF short \/ flat THEN FALSE ELSE x
        width == windowed(g.bb_width, BbWidth(100, 100, 100))
        \* bb_width.rolling(25).quantile(0.2): undefined on a short table, and on
        \* the bars of a long one where the volatility thresholds are undefined
        \* and no squeeze is seen.
        q20 == IF short \/ (IsNaN(t.vol.vol_low_threshold) /\ ~g.vol_squeeze) THEN NaN
               ELSE IF flat THEN width
               ELSE IF g.vol_squeeze THEN width + 10 ELSE width - 10
        history == IF short \/ (flat /\ unfunded) THEN <<0, 0, 0, 0>> ELSE g.raw_history
    IN [close |-> 100,
        close_prev |-> IF flat THEN 100 ELSE g.close_prev,
        close_8 |-> IF flat THEN 100 ELSE g.close_8,
        rsi |-> windowed(g.rsi, NaN), rsi_prev |-> windowed(g.rsi_prev, NaN),
        macd_hist |-> windowed(g.macd_hist, 0),
        macd_hist_prev |-> windowed(g.macd_hist_prev, 0),
        volume_ratio |->
            IF short THEN NaN
            ELSE IF t.volume = "zero" THEN VolumeRatio(0, 0) ELSE g.volume_ratio,
        volume_confirmed_before |->
            IF short \/ t.volume = "zero" THEN 0 ELSE g.volume_confirmed_before,
        ema_fast |-> IF flat THEN 100 ELSE g.ema_fast,
        ema_medium |-> windowed(g.ema_medium, 100),
        ema_slow |-> windowed(g.ema_slow, 100),
        atr |-> windowed(g.atr, 0),
        bb_lower |-> windowed(g.bb_lower, 100),
        bb_middle |-> windowed(g.bb_middle, 100),
        bb_upper |-> windowed(g.bb_upper, 100),
        bb_upper_prev |-> windowed(g.bb_upper_prev, 100),
        bb_width |-> width,
        bb_width_5 |-> windowed(g.bb_width_5, BbWidth(100, 100, 100)),
        bb_width_q20 |-> q20,
        vol_squeeze_prev |-> condition(g.vol_squeeze_prev),
        vol_squeeze |-> LT(width, q20),
        vol_ratio_4h |-> windowed(g.vol_ratio_4h, 0),
        vol_ratio_24h |-> windowed(g.vol_ratio_24h, 0),
        funding_rate |-> FundingRate(t, column(g.funding_rate)),
        funding_prev |-> FundingRate(t, column(g.funding_prev)),
        funding_8 |-> FundingRate(t, column(g.funding_8)),
        funding_acceleration_rising |->
            IF short \/ unfunded THEN FALSE ELSE g.funding_acceleration_rising,
        cross_timeframe_funding_divergence |->
            IF short \/ unfunded THEN FALSE ELSE g.cross_timeframe_funding_divergence,
        funding_jerk_negative |->
            IF short \/ unfunded THEN FALSE ELSE g.funding_jerk_negative,
        funding_velocity_high |->
            IF short \/ unfunded THEN FALSE ELSE g.funding_velocity_high,
        price_velocity |-> IF flat THEN 0 ELSE g.price_velocity,
        mtf_trend_aligned |-> condition(g.mtf_trend_aligned),
        raw_history |-> history,
        neg_momentum |-> IF flat THEN FALSE ELSE g.neg_momentum,
        vol_cascade_1h |-> condition(g.vol_cascade_1h),
        close_above_5 |-> IF flat THEN FALSE ELSE g.close_above_5,
        price_extreme |-> condition(g.price_extreme),
        momentum_slowing |-> IF flat THEN FALSE ELSE g.momentum_slowing,
        crash_mode_prev |-> CrashMode(HighRisk(CrashProbability(history)))]

\* norm_atr, its rolling quantiles and its ranks at the bar looked at: undefined
\* on a short table (the ATR has a 14-bar window), 0 with tied ranks on a table
\* with a constant price.
TableVol(t) ==
    IF t.length = "short" THEN MakeVol(<<NaN, NaN, NaN, NaN, NaN>>, NaN)
    ELSE IF t.price = "constant" THEN MakeVol(<<0, 0, 0, 0, 5100>>, 5027)
    ELSE t.vol

\* _detect_volatility_regimes, l. 219-221 and 235: the regime flags of the bar,
\* next to the values they are computed from.
VolatilityRegimes(b, v) ==
    LET low == LT(v.norm_atr, v.vol_low_threshold)
        high == HighVolatility(v)
    IN [norm_atr |-> v.norm_atr,
        vol_low_threshold |-> v.vol_low_threshold,
        vol_high_threshold |-> v.vol_high_threshold,
        vol_q90 |-> v.vol_q90,
        rolling_rank_pct |-> v.rolling_rank_pct,
        rank_pct |-> v.rank_pct,
        low_volatility |-> low,
        high_volatility |-> high,
        med_volatility |-> ~(low \/ high),
        vol_squeeze |-> b.vol_squeeze]

InitTable ==
    /\ pc = "table"
    /\ nbar = 0
    /\ raw_window = <<>>
    /\ feat = NoFeat
    /\ bar = NoBar
    /\ sig = NoSig
    /\ NoExperiment
    /\ NoMonitor
    /\ series_a = <<>>
    /\ series_b = <<>>
    /\ common = 0
    /\ \E missing \in {"none", "open", "high", "low", "close", "volume"},
          datetime \in {"index", "missing"},
          funding \in {"given", "absent", "zeros", "nans"},
          length \in {"long", "short"},
          price \in {"moving", "constant"},
          volume \in {"traded", "zero"},
          r \in {<<58, 56>>, <<62, 64>>}, m \in {<<5, 3>>, <<-5, -3>>},
          v \in {<<70, 0>>, <<125, 2>>}, e \in {<<98, 97, 90>>, <<94, 97, 110>>},
          bo \in {<<TRUE, FALSE, 99, TRUE>>, <<FALSE, TRUE, 111, FALSE>>},
          fc \in {<<-3, -4, -5, FALSE>>, <<20, 19, 18, TRUE>>},
          pv \in {-100, 500},
          h \in {<<0, 0, 0, 0>>, <<100, 100, 100, 100>>}, ff \in BOOLEAN,
          vc \in {<<200, NaN, NaN, NaN, NaN>>, <<200, 150, 250, 300, 5000>>,
                  <<300, 150, 250, 280, 10000>>} :
          table = [columns |-> {"open", "high", "low", "close", "volume"} \ {missing},
                   datetime |-> datetime, funding |-> funding, length |-> length,
                   price |-> price, volume |-> volume,
                   values |-> MakeBar(r, m, v, <<99, 98>>, e, 104, bo,
                                      <<250, 90, 100>>, fc, pv, h, ff),
                   vol |-> MakeVol(vc, 6000)]

\* run_experiment(val_df) on the table: it raises before anything is computed,
\* or it computes the features, the signals, the sizing and the stops of the
\* bar and returns them.
RunExperimentOnTable ==
    /\ pc = "table"
    /\ IF PipelineRaises(table)
       THEN /\ pc' = "raised"
            /\ UNCHANGED <<raw_window, feat, bar, sig, vol, sizing, frame, runs>>
       ELSE LET b == TableBar(table)
                all_features == ConstructedFrame(frame)
            IN /\ pc' = "returned"
               /\ bar' = b
               /\ vol' = VolatilityRegimes(b, TableVol(table))
               /\ raw_window' = Slide(b.raw_history, RawProb(FiredFactors(b)))
               /\ feat' = ClassifyInput(b)
               /\ sig' = GenerateAdaptiveSignals(b, feat')
               /\ sizing' = SizeBar(b, feat', vol')
               /\ frame' = all_features \cup {"position_size_calc"}
               /\ runs' = Append(runs, RunResult(all_features, sig', sizing'))
    /\ UNCHANGED <<nbar, thresholds, alert, series_a, series_b, common, table, clock, cache, fetch, main>>

SpecTable == InitTable /\ [][RunExperimentOnTable]_vars

(***************************************************************************)
(* C14: a missing required column aborts the pipeline                      *)
(***************************************************************************)
\* C14: when one of open, high, low, close, volume is absent from the input
\* table, run_experiment raises and has computed nothing: no feature frame
\* and no result.
C14_MissingColumnAborts ==
    pc \in {"returned", "raised"}
        => (table.columns # {"open", "high", "low", "close", "volume"}
                => (pc = "raised" /\ frame = {} /\ runs = <<>>))

(***************************************************************************)
(* C15: an absent funding_rate column is an all-zero one                   *)
(***************************************************************************)
\* C15: a table without a funding_rate column, or with NaN in it, yields the
\* indicator values, features, signals and sizing of the same table with a
\* funding_rate of 0 on every bar; and with no funding every funding-derived
\* flag is false, funding_stress is 0 and no funding factor fires.
C15_AbsentFundingIsZero ==
    (pc = "returned" /\ table.funding # "given")
        => LET zeros == [table EXCEPT !.funding = "zeros"]
               b == TableBar(zeros)
               f == ClassifyInput(b)
               v == VolatilityRegimes(b, TableVol(zeros))
           IN /\ bar = b
              /\ feat = f
              /\ sig = GenerateAdaptiveSignals(b, f)
              /\ sizing = SizeBar(b, f, v)
              /\ ~FundingBearishDivergence(bar) /\ ~FundingBullishDivergence(bar)
              /\ ~FundingExtremePositive(bar) /\ ~FundingExtremeNegative(bar)
              /\ ~FundingTurnedNegative(bar) /\ ~FundingTurnedPositive(bar)
              /\ ~bar.funding_acceleration_rising
              /\ ~bar.cross_timeframe_funding_divergence
              /\ FundingStress(bar) = 0
              /\ FiredFactors(bar) \cap {"funding_stress", "funding_acceleration_rising",
                                         "funding_velocity", "cross_timeframe_funding"} = {}

\* A bull-market bar of a table whose funding_rate column holds NaN: the long
\* entry that asks for funding_momentum >= 0 fires.
C15_Witness ==
    /\ pc = "returned"
    /\ table.funding = "nans"
    /\ BullEntry(bar, feat)
    /\ sig.long_entries

(***************************************************************************)
(* C16: undefined volatility thresholds mean no volatility regime          *)
(***************************************************************************)
\* C16: on a bar where the rolling thresholds of norm_atr are undefined, none
\* of low_volatility, med_volatility, high_volatility holds, and where the
\* rolling quantile of the band width is undefined vol_squeeze does not hold.
C16_NoRegimeWhileUndefined ==
    pc = "returned"
        => /\ IsNaN(vol.vol_low_threshold)
                => (~vol.low_volatility /\ ~vol.med_volatility /\ ~vol.high_volatility)
           /\ IsNaN(bar.bb_width_q20) => ~vol.vol_squeeze

(***************************************************************************)
(* C17: a 10-bar input                                                     *)
(***************************************************************************)
\* C17: on a bar of a 10-bar table every derived boolean flag is false,
\* position_size is its minimum 0.1 and stop_loss_pct is its minimum 1.0.
C17_ShortInputDefaults ==
    (pc = "returned" /\ table.length = "short")
        => /\ ~feat.bull_market /\ ~feat.bear_market
           /\ ~feat.consolidation /\ ~feat.crash_mode
           /\ ~feat.high_risk /\ ~feat.med_risk /\ ~feat.low_risk
           /\ ~feat.early_crash_warning /\ ~feat.mid_crash_phase
           /\ ~feat.late_crash_phase
           /\ ~vol.low_volatility /\ ~vol.med_volatility
           /\ ~vol.high_volatility /\ ~vol.vol_squeeze
           /\ ~sig.entries /\ ~sig.exits
           /\ sizing.position_size = 1000
           /\ sizing.stop_loss_pct = 10000

(***************************************************************************)
(* C18: a flat market gives no entries                                     *)
(***************************************************************************)
\* C18: with zero volume on every bar (volume_ratio is 0/0) no long and no
\* short entry rule fires, and with a constant price and no funding as well no
\* crash factor fires and crash_probability is 0.
C18_FlatMarketNoEntries ==
    (pc = "returned" /\ table.volume = "zero")
        => /\ ~sig.long_entries_pre /\ ~sig.short_entries_pre /\ ~sig.entries
           /\ (table.price = "constant" /\ table.funding # "given")
                => /\ FiredFactors(bar) = {}
                   /\ feat.crash_probability = 0

\* A bar of a long table with a constant price, zero volume and zero funding.
C18_Witness ==
    /\ pc = "returned"
    /\ table.length = "long"
    /\ table.price = "constant"
    /\ table.volume = "zero"
    /\ table.funding = "zeros"
    /\ IsNaN(bar.volume_ratio)
    /\ feat.crash_probability = 0

(***************************************************************************)
(* C19: the crisis level forces an exit                                    *)
(***************************************************************************)
\* C19: on every bar whose crash_probability has reached the default crisis
\* threshold, crash_probability >= 0.6, the returned exit signal is true.
C19_CrisisForcesExit ==
    (pc = "resolved" /\ feat.crash_probability >= P(60)) => sig.exits

(***************************************************************************)
(* C20: check_crash_probability_for_symbol returns None or the full dict   *)
(***************************************************************************)
\* C20: check_crash_probability_for_symbol never raises; what it returns, if
\* not None, has the 16 fields, a crash_probability in [0, 1] and a
\* trend_strength in [0, 1].
C20_NoneOrFullMetrics ==
    /\ alert.source # "raised"
    /\ alert.source = "monitor"
        => /\ Cardinality(alert.fields) = 16
           /\ {"crash_probability", "pre_crash_warning", "early_warning",
               "crisis_alert", "trend_strength"} \subseteq alert.fields
           /\ alert.crash_probability >= 0 /\ alert.crash_probability =< P(100)
           /\ alert.trend_strength >= 0 /\ alert.trend_strength =< One

\* A symbol analysed with its thresholds loaded: the dict is returned, at the
\* top of the trend_strength range and past the crisis threshold.
C20_Witness ==
    /\ pc = "monitor"
    /\ alert.source = "monitor"
    /\ alert.crash_probability = P(75)
    /\ alert.trend_strength = One
    /\ alert.crisis_alert

(***************************************************************************)
(* The futures data loader behind the monitor (data_loader_futures.py) and *)
(* the cache check of check_crash_probability_for_symbol.  One symbol is   *)
(* followed, on the monitor's period "1mo" and timeframe "1h".  A file of  *)
(* the datasets directory is [kind, since, mtime, candles]: kind is "1h"   *)
(* for OHLCV and "funding" for funding rates, since is the date in the     *)
(* file name (the day number of now - 30 days), candles counts the rows,   *)
(* partial tells that a failed request cut the series short.               *)
(* The wall clock starts one hour before midnight.                         *)
(***************************************************************************)
MaxTicks == 3

CACHE_EXPIRY == 3600

\* get_cache_age: the age of the most recently modified "1h" file of the
\* symbol, whatever date and limit its name carries; inf without one.
GetCacheAge(files, now) ==
    LET ohlcv == {f \in files : f.kind = "1h"}
    IN IF ohlcv = {} THEN PosInf
       ELSE now - (CHOOSE m \in {f.mtime : f \in ohlcv} : \A f \in ohlcv : f.mtime =< m)

\* A pagination loop that goes on after a short batch.
LoopEndsAtLimitOnly(total, batch, limit) == total >= limit

\* if len(all_candles) >= limit or len(ohlcv) < 50: break
LoopEnds(total, batch, limit) == total >= limit \/ batch < 50

\* An except branch that never uses partial data.
NeverUsePartial(total) == FALSE

\* except Exception: if len(all_candles) > 100 the loop is left with the
\* partial data, otherwise the exception is raised again.
UsePartial(total) == total > 100

\* fetch_funding_rates: the cached file is loaded unless force_refresh; else the
\* exchange is asked, and the file is written only when it answered with rows
\* (an empty answer or an exception returns an empty frame and writes nothing).
FetchFundingRates(files, force_refresh, since, now, answered) ==
    IF ~force_refresh /\ \E f \in files : f.kind = "funding" /\ f.since = since
    THEN [files |-> files, contacted |-> FALSE]
    ELSE [files |-> IF answered
                    THEN {f \in files : ~(f.kind = "funding" /\ f.since = since)}
                         \cup {[kind |-> "funding", since |-> since, mtime |-> now,
                                candles |-> 820 \div 8 + 100, partial |-> FALSE]}
                    ELSE files,
          contacted |-> TRUE]

InitFetch ==
    /\ pc = "fetch"
    /\ nbar = 0
    /\ raw_window = <<>>
    /\ feat = NoFeat
    /\ bar = NoBar
    /\ sig = NoSig
    /\ NoExperiment
    /\ NoSeries
    /\ thresholds = NoThresholds
    /\ alert = NoAlert
    /\ main = [pc |-> "idle"]
    /\ clock = 23 * 3600
    /\ cache = {}
    /\ fetch = [pc |-> "idle"]

\* Time passes between two calls.
Tick ==
    /\ fetch.pc # "loop"
    /\ clock < 23 * 3600 + MaxTicks * 1800
    /\ clock' = clock + 1800
    /\ UNCHANGED <<pc, nbar, raw_window, feat, bar, sig, vol, sizing, frame, runs, thresholds,
                   alert, series_a, series_b, common, table, cache, fetch, main>>

\* check_crash_probability_for_symbol up to its fetch (l. 143-160):
\* force_refresh = cache_age > CACHE_EXPIRY, then fetch_crypto_futures_data with
\* since = today - 30 days and limit = 30 * 24 + 100, which starts
\* fetch_futures_ohlcv: the file named after since is loaded unless
\* force_refresh (l. 97-102), and then the funding rates are fetched.
FetchCryptoFuturesData ==
    /\ pc = "fetch"
    /\ fetch.pc # "loop"
    /\ LET cache_age == GetCacheAge(cache, clock)
           force_refresh == cache_age > CACHE_EXPIRY
           since == clock \div (24 * 3600)
           call == [cache_age |-> cache_age, force_refresh |-> force_refresh,
                    since |-> since, limit |-> 30 * 24 + 100, requests |-> 0,
                    behaved |-> TRUE, failed_at |-> NaN, wrote |-> FALSE]
           cached == {f \in cache : f.kind = "1h" /\ f.since = since}
       IN IF ~force_refresh /\ cached # {}
          THEN \E answered \in BOOLEAN :
                  LET funding == FetchFundingRates(cache, force_refresh, since, clock, answered)
                  IN /\ cache' = funding.files
                     /\ fetch' = call @@ [pc |-> "returned", from_cache |-> TRUE,
                                          all_candles |-> 0,
                                          result |-> (CHOOSE f \in cached : TRUE).candles,
                                          contacted |-> FALSE,
                                          funding_contacted |-> funding.contacted]
          ELSE /\ fetch' = call @@ [pc |-> "loop", from_cache |-> FALSE, all_candles |-> 0,
                                    result |-> NaN, contacted |-> FALSE,
                                    funding_contacted |-> FALSE]
               /\ UNCHANGED cache
    /\ UNCHANGED <<pc, nbar, raw_window, feat, bar, sig, vol, sizing, frame, runs, thresholds,
                   alert, series_a, series_b, common, table, clock, main>>

\* One turn of the pagination loop of fetch_futures_ohlcv (l. 135-168) and,
\* when the loop is left, the rest of the function (l. 170-198) and of
\* fetch_crypto_futures_data (l. 400-415).  The exchange answers with a batch
\* of any size, also more than asked, or the request raises.
FetchOhlcvPage ==
    /\ pc = "fetch"
    /\ fetch.pc = "loop"
    /\ LET batch_limit == IF fetch.limit - fetch.all_candles < 500
                          THEN fetch.limit - fetch.all_candles ELSE 500
           asked == [fetch EXCEPT !.requests = @ + 1, !.contacted = TRUE]
           \* after the loop: no candle at all is a ValueError; else the frame is
           \* written to the cache file and the funding rates are fetched
           Leave(f, answered) ==
               IF f.all_candles = 0
               THEN /\ fetch' = [f EXCEPT !.pc = "raised"]
                    /\ UNCHANGED cache
               ELSE LET saved == {c \in cache : ~(c.kind = "1h" /\ c.since = f.since)}
                                 \cup {[kind |-> "1h", since |-> f.since, mtime |-> clock,
                                        candles |-> f.all_candles,
                                        partial |-> f.failed_at # NaN]}
                        funding == FetchFundingRates(saved, f.force_refresh, f.since,
                                                     clock, answered)
                    IN /\ cache' = funding.files
                       /\ fetch' = [f EXCEPT !.pc = "returned", !.wrote = TRUE,
                                             !.result = f.all_candles,
                                             !.funding_contacted = funding.contacted]
       IN \E answered \in BOOLEAN :
          \/ \* exchange.fetch_ohlcv raises
             IF UsePartial(fetch.all_candles)
             THEN Leave([asked EXCEPT !.failed_at = fetch.all_candles], answered)
             ELSE /\ fetch' = [asked EXCEPT !.pc = "raised", !.failed_at = fetch.all_candles]
                  /\ UNCHANGED cache
          \/ \* an empty batch
             Leave(asked, answered)
          \/ \E n \in {40, 50, batch_limit, batch_limit + 10} :
                LET got == [asked EXCEPT !.all_candles = @ + n,
                                         !.behaved = @ /\ n =< batch_limit]
                IN IF LoopEnds(got.all_candles, n, got.limit)
                   THEN Leave(got, answered)
                   ELSE fetch' = got /\ UNCHANGED cache
    /\ UNCHANGED <<pc, nbar, raw_window, feat, bar, sig, vol, sizing, frame, runs, thresholds,
                   alert, series_a, series_b, common, table, clock, main>>

SpecFetch == InitFetch /\ [][Tick \/ FetchCryptoFuturesData \/ FetchOhlcvPage]_vars

(***************************************************************************)
(* C21: a download happens exactly when the cache is absent or expired     *)
(***************************************************************************)
\* C21: a check of the symbol contacts the exchange exactly when no cache file
\* of the symbol exists or the newest one is more than CACHE_EXPIRY seconds
\* old; otherwise it works from the cached data.
C21_DownloadIffExpired ==
    fetch.pc \in {"returned", "raised"}
        => ((fetch.contacted \/ fetch.funding_contacted) <=> fetch.cache_age > CACHE_EXPIRY)

(***************************************************************************)
(* C27: the pagination loop ends                                           *)
(***************************************************************************)
\* C27: whatever the exchange answers, the loop of fetch_futures_ohlcv makes at
\* most limit / 50 requests (rounded up) before the function returns or
\* raises, and while no batch is larger than asked for, no more than limit
\* candles are collected.
C27_PaginationBounded ==
    fetch.pc # "idle"
        => /\ fetch.requests * 50 =< fetch.limit + 49
           /\ fetch.pc = "loop" => (fetch.requests + 1) * 50 =< fetch.limit + 49
           /\ fetch.behaved => fetch.all_candles =< fetch.limit

\* A well-behaved exchange that answered 50 candles at a time up to the limit.
C27_Witness ==
    /\ fetch.pc = "returned"
    /\ fetch.behaved
    /\ fetch.requests * 50 >= fetch.limit
    /\ fetch.all_candles = fetch.limit

(***************************************************************************)
(* C28: a request that raises                                              *)
(***************************************************************************)
\* C28: when a page request raises with at most 100 candles collected, the
\* exception leaves the function and nothing is written; with more than 100
\* the truncated series is the result and is written to the cache file, and a
\* later load of that file without force_refresh returns what the file holds.
C28_PartialDataCached ==
    /\ (fetch.pc # "idle" /\ fetch.failed_at # NaN /\ fetch.failed_at =< 100)
        => fetch.pc = "raised" /\ ~fetch.wrote
    /\ (fetch.pc # "idle" /\ fetch.failed_at # NaN /\ fetch.failed_at > 100)
        => /\ fetch.pc = "returned" /\ fetch.wrote
           /\ fetch.result = fetch.failed_at
           /\ \E f \in cache : /\ f.kind = "1h" /\ f.since = fetch.since
                                /\ f.candles = fetch.failed_at /\ f.partial
    /\ (fetch.pc = "returned" /\ fetch.from_cache)
        => \E f \in cache : f.kind = "1h" /\ f.since = fetch.since /\ f.candles = fetch.result

\* A load from the cache that returns a series truncated by a failed request.
C28_Witness ==
    /\ fetch.pc = "returned"
    /\ fetch.from_cache
    /\ \E f \in cache : /\ f.kind = "1h" /\ f.since = fetch.since /\ f.partial
                         /\ f.candles = fetch.result /\ f.candles < fetch.limit

(***************************************************************************)
(* main of multi_crash_monitor.py.  The symbols of TOP_CRYPTOS are checked *)
(* by worker threads that finish in any order; a check yields None or the  *)
(* metrics of the symbol, of which the model keeps symbol,                 *)
(* crash_probability, market_strength, trend_strength and timestamp.  A    *)
(* message is what format_consolidated_alert builds: one line per symbol   *)
(* (symbol, alert level, market regime), the recommendation block and the  *)
(* timestamp line.                                                         *)
(***************************************************************************)
MaxSymbols == 2

TOP_CRYPTOS == SubSeq(<<"BTC", "ETH", "SOL", "XRP", "AVAX", "TRUMP">>, 1, MaxSymbols)

\* A filter that leaves out a symbol exactly at the threshold.
AboveThreshold(m, min_probability) == m.crash_probability > min_probability

\* m['crash_probability'] >= min_probability (l. 253 and 432)
MeetsThreshold(m, min_probability) == m.crash_probability >= min_probability

\* The market regime written on a symbol's line (l. 283-295).
MarketRegime(m) ==
    IF m.market_strength > S(60)
    THEN IF m.trend_strength > S(50) THEN "BULL" ELSE "CONSOLIDATION"
    ELSE IF m.market_strength < S(30)
         THEN IF m.trend_strength < S(30) THEN "BEAR" ELSE "CRASH"
         ELSE "VOLATILE"

\* format_consolidated_alert: None when no symbol meets the threshold; else the
\* alerts sorted by crash_probability, highest first (list.sort is stable:
\* equal probabilities keep the order of all_metrics), and the recommendation
\* and timestamp of the first of them.
FormatConsolidatedAlert(all_metrics, min_probability, th) ==
    LET alerts == SelectSeq(all_metrics, LAMBDA m : MeetsThreshold(m, min_probability))
        n == Len(alerts)
        rank(i) == Cardinality({j \in 1..n :
                       \/ alerts[j].crash_probability > alerts[i].crash_probability
                       \/ /\ alerts[j].crash_probability = alerts[i].crash_probability
                          /\ j < i}) + 1
        sorted == [k \in 1..n |-> alerts[CHOOSE i \in 1..n : rank(i) = k]]
        level(crash_prob) == IF crash_prob >= th.crisis THEN "crisis"
                             ELSE IF crash_prob >= th.early_warning THEN "high"
                             ELSE IF crash_prob >= th.pre_crash THEN "medium"
                             ELSE "low"
    IN IF n = 0 THEN [kind |-> "none"]
       ELSE [kind |-> "alert",
             lines |-> [k \in 1..n |-> [symbol |-> sorted[k].symbol,
                                        crash_probability |-> sorted[k].crash_probability,
                                        level |-> level(sorted[k].crash_probability),
                                        regime |-> MarketRegime(sorted[k])]],
             recommendation |-> level(sorted[1].crash_probability),
             timestamp |-> sorted[1].timestamp]

\* The environment main starts in: the two Telegram credentials, set or not,
\* CRASH_ALERT_THRESHOLD, and whether SEND_DAILY_SUMMARY is true with the
\* current hour the summary hour.  The thresholds are the defaults.
InitMain ==
    /\ pc = "main"
    /\ nbar = 0
    /\ raw_window = <<>>
    /\ feat = NoFeat
    /\ bar = NoBar
    /\ sig = NoSig
    /\ NoExperiment
    /\ NoSeries
    /\ thresholds = DefaultThresholds
    /\ alert = NoAlert
    /\ clock = 0
    /\ cache = {}
    /\ fetch = [pc |-> "idle"]
    /\ \E bot_token \in BOOLEAN, chat_id \in BOOLEAN, min_probability \in {P(20), P(40)},
          summary_due \in BOOLEAN :
          main = [pc |-> "start", bot_token |-> bot_token, chat_id |-> chat_id,
                  min_probability |-> min_probability, summary_due |-> summary_due,
                  pending |-> {}, submitted |-> FALSE, all_metrics |-> <<>>,
                  attempts |-> <<>>, sent |-> <<>>, ret |-> NaN]

\* main up to the submission of the checks (l. 348-385): without both
\* credentials it returns 1.
SubmitChecks ==
    /\ pc = "main"
    /\ main.pc = "start"
    /\ main' = IF ~main.bot_token \/ ~main.chat_id
               THEN [main EXCEPT !.pc = "done", !.ret = 1]
               ELSE [main EXCEPT !.pc = "collect", !.submitted = TRUE,
                                 !.pending = {TOP_CRYPTOS[i] : i \in 1..Len(TOP_CRYPTOS)}]
    /\ UNCHANGED <<pc, nbar, raw_window, feat, bar, sig, vol, sizing, frame, runs, thresholds,
                   alert, series_a, series_b, common, table, clock, cache, fetch>>

\* as_completed hands over the next finished check, whichever it is; its
\* metrics are appended to all_metrics unless it returned None (l. 388-395).
CollectResult ==
    /\ pc = "main"
    /\ main.pc = "collect"
    /\ \E symbol \in main.pending :
          \/ main' = [main EXCEPT !.pending = @ \ {symbol}]
          \/ \E crash_prob \in {P(10), P(40), P(70)}, timestamp \in {1, 2},
                strength \in {<<S(70), S(60)>>, <<S(70), S(30)>>, <<S(10), S(10)>>} :
                main' = [main EXCEPT !.pending = @ \ {symbol},
                                     !.all_metrics = Append(@,
                                         [symbol |-> symbol, crash_probability |-> crash_prob,
                                          market_strength |-> strength[1],
                                          trend_strength |-> strength[2],
                                          timestamp |-> timestamp])]
    /\ UNCHANGED <<pc, nbar, raw_window, feat, bar, sig, vol, sizing, frame, runs, thresholds,
                   alert, series_a, series_b, common, table, clock, cache, fetch>>

\* main after the checks (l. 431-463): the alert is sent when a symbol meets
\* the threshold, and the return code tells whether Telegram took it;
\* otherwise the daily summary of the top three is sent when it is due, and
\* main returns 0 whatever became of it.
SendAlerts ==
    /\ pc = "main"
    /\ main.pc = "collect"
    /\ main.pending = {}
    /\ \E delivered \in BOOLEAN :
          LET message == FormatConsolidatedAlert(main.all_metrics, main.min_probability,
                                                 thresholds)
              \* sorted(all_metrics, ...)[:3], formatted with threshold 0.0 and the
              \* default thresholds
              top3 == FormatConsolidatedAlert(main.all_metrics, P(0), DefaultThresholds)
              summary == [top3 EXCEPT !.lines = SubSeq(@, 1, IF Len(@) < 3 THEN Len(@) ELSE 3)]
          IN IF \E i \in 1..Len(main.all_metrics) :
                   MeetsThreshold(main.all_metrics[i], main.min_probability)
             THEN IF message.kind = "none"
                  THEN main' = [main EXCEPT !.pc = "done", !.ret = 1]
                  ELSE main' = [main EXCEPT !.pc = "done",
                                            !.attempts = Append(@, message),
                                            !.sent = IF delivered THEN Append(@, message) ELSE @,
                                            !.ret = IF delivered THEN 0 ELSE 1]
             ELSE IF main.summary_due /\ main.all_metrics # <<>>
                  THEN main' = [main EXCEPT !.pc = "done",
                                            !.attempts = Append(@, summary),
                                            !.sent = IF delivered THEN Append(@, summary) ELSE @,
                                            !.ret = 0]
                  ELSE main' = [main EXCEPT !.pc = "done", !.ret = 0]
    /\ UNCHANGED <<pc, nbar, raw_window, feat, bar, sig, vol, sizing, frame, runs, thresholds,
                   alert, series_a, series_b, common, table, clock, cache, fetch>>

SpecMain == InitMain /\ [][SubmitChecks \/ CollectResult \/ SendAlerts]_vars

(***************************************************************************)
(* C23: the adaptive exit thresholds and their regime                      *)
(***************************************************************************)
\* C23: the regime the monitor derives from a symbol's metrics is one of BULL,
\* BEAR, CRASH and VOLATILE, and a crisis-level crash probability (0.7) is
\* classified as CRASH.
C23_AdaptiveExitRegime ==
    (main.pc = "done" /\ main.attempts # <<>>)
        => \A k \in 1..Len(main.attempts[1].lines) :
              LET line == main.attempts[1].lines[k]
              IN /\ line.regime \in {"BULL", "BEAR", "CRASH", "VOLATILE"}
                 /\ line.crash_probability >= P(70) => line.regime = "CRASH"

C25_CompletionOrderIrrelevant ==
    (main.pc = "done" /\ main.attempts # <<>>
        /\ \E i \in 1..Len(main.all_metrics) :
              main.all_metrics[i].crash_probability >= main.min_probability)
        => LET n == Len(main.all_metrics)
               index(symbol) == CHOOSE i \in 1..Len(TOP_CRYPTOS) : TOP_CRYPTOS[i] = symbol
               place(i) == Cardinality({j \in 1..n : index(main.all_metrics[j].symbol)
                                                       < index(main.all_metrics[i].symbol)}) + 1
               submitted == [k \in 1..n |-> main.all_metrics[CHOOSE i \in 1..n : place(i) = k]]
           IN main.attempts[1]
                 = FormatConsolidatedAlert(submitted, main.min_probability, thresholds)

(***************************************************************************)
(* main of crash_monitor.py, the single-symbol monitor.  It builds the     *)
(* strategy object of initial.py on the fetched bars and reads the latest  *)
(* values of some of its attributes.                                       *)
(***************************************************************************)
\* The attributes a FuturesTradingStrategy object has once constructed.
StrategyAttributes ==
    {"adx", "adx_declining", "atr", "atr_1h", "atr_24h", "atr_4h", "bb_lower",
     "bb_middle", "bb_upper", "bb_width", "bear_market", "bull_market", "close",
     "consolidation", "crash_mode", "crash_probability",
     "cross_timeframe_funding_divergence", "df", "distribution_phase",
     "distribution_strengthening", "early_crash_warning", "ema_fast", "ema_medium",
     "ema_slow", "feature_df", "funding_acceleration",
     "funding_acceleration_rising", "funding_bearish_divergence",
     "funding_bullish_divergence", "funding_extreme_negative",
     "funding_extreme_positive", "funding_jerk", "funding_ma_long",
     "funding_ma_short", "funding_momentum", "funding_momentum_8h", "funding_rate",
     "funding_std", "funding_stress", "funding_stress_4h", "funding_stress_8h",
     "funding_turned_negative", "funding_turned_positive", "funding_velocity",
     "high", "high_risk", "high_volatility", "late_crash_phase", "low", "low_risk",
     "low_volatility", "macd", "macd_hist", "macd_signal", "market_strength",
     "med_risk", "med_volatility", "mid_crash_phase", "momentum_strength",
     "mtf_trend", "mtf_trend_aligned", "norm_atr", "obv", "obv_divergence",
     "obv_ma", "price_accel_slope", "price_acceleration", "price_velocity",
     "price_vol_corr", "returns", "rsi", "rsi_fast", "stoch_bearish_div",
     "stoch_d", "stoch_k", "stoch_overbought", "trend_exhaustion",
     "trend_strength", "vol_cascade", "vol_contracting", "vol_expanding",
     "vol_high_threshold", "vol_low_threshold", "vol_ratio_24h", "vol_ratio_4h",
     "vol_squeeze", "volume", "volume_ma", "volume_ratio", "volume_strength"}

\* check_crash_probability: the fetch may fail; the attributes read at
\* l. 104-111 must exist on the object, or the read raises AttributeError.
CheckCrashProbability(fetched, crash_prob) ==
    IF ~fetched THEN [kind |-> "error", error |-> "ValueError"]
    ELSE IF {"crash_probability", "pre_crash_warning", "early_warning", "crisis_alert",
             "rsi", "atr_short", "atr_long"} \subseteq StrategyAttributes
         THEN [kind |-> "metrics", crash_probability |-> crash_prob]
         ELSE [kind |-> "error", error |-> "AttributeError"]

\* The environment and the market crash_monitor.main runs in.
InitCrashMonitor ==
    /\ pc = "crash_monitor"
    /\ nbar = 0
    /\ raw_window = <<>>
    /\ feat = NoFeat
    /\ bar = NoBar
    /\ sig = NoSig
    /\ NoExperiment
    /\ NoSeries
    /\ thresholds = NoThresholds
    /\ alert = NoAlert
    /\ clock = 0
    /\ cache = {}
    /\ fetch = [pc |-> "idle"]
    /\ \E bot_token \in BOOLEAN, chat_id \in BOOLEAN, summary_due \in BOOLEAN,
          min_probability \in {P(20), P(40), P(60)}, fetched \in BOOLEAN,
          h \in RawHistories, fired \in {{}, FactorNames} :
          main = [pc |-> "start", bot_token |-> bot_token, chat_id |-> chat_id,
                  min_probability |-> min_probability, summary_due |-> summary_due,
                  fetched |-> fetched,
                  crash_probability |-> CrashProbability(Slide(h, RawProb(fired))),
                  checked |-> FALSE, error |-> "none", attempts |-> <<>>, sent |-> <<>>,
                  ret |-> NaN]

\* crash_monitor.main (l. 195-273): 1 without credentials; the alert when the
\* probability reaches the threshold, with the return code telling whether
\* Telegram took it; any exception of the check leads to the error
\* notification and 1.
CrashMonitorMain ==
    /\ pc = "crash_monitor"
    /\ main.pc = "start"
    /\ \E delivered \in BOOLEAN :
          LET metrics == CheckCrashProbability(main.fetched, main.crash_probability)
              send(m, code) == [main EXCEPT !.pc = "done", !.checked = TRUE,
                                            !.attempts = Append(@, m),
                                            !.sent = IF delivered THEN Append(@, m) ELSE @,
                                            !.ret = code]
          IN main' =
                IF ~main.bot_token \/ ~main.chat_id
                THEN [main EXCEPT !.pc = "done", !.ret = 1]
                ELSE IF metrics.kind = "error"
                THEN [send([kind |-> "error"], 1) EXCEPT !.error = metrics.error]
                ELSE IF metrics.crash_probability >= main.min_probability
                THEN send([kind |-> "alert"], IF delivered THEN 0 ELSE 1)
                ELSE IF main.summary_due
                THEN send([kind |-> "alert"], 0)
                ELSE [main EXCEPT !.pc = "done", !.checked = TRUE, !.ret = 0]
    /\ UNCHANGED <<pc, nbar, raw_window, feat, bar, sig, vol, sizing, frame, runs, thresholds,
                   alert, series_a, series_b, common, table, clock, cache, fetch>>

SpecCrashMonitor == InitCrashMonitor /\ [][CrashMonitorMain]_vars

(***************************************************************************)
(* C26: crash_monitor.main computes its metrics and alerts                 *)
(***************************************************************************)
\* C26: with the credentials set and the data fetched, crash_monitor.main gets
\* its metrics from the strategy object without entering its error path, sends
\* the alert if and only if crash_probability >= CRASH_ALERT_THRESHOLD, and
\* returns 0 when the alert was delivered or none was needed.
C26_MetricsWithoutError ==
    (main.pc = "done" /\ main.bot_token /\ main.chat_id /\ main.fetched)
        => /\ main.error = "none"
           /\ (main.attempts # <<>> /\ main.attempts[1].kind = "alert")
                 <=> main.crash_probability >= main.min_probability
           /\ (main.sent # <<>> \/ main.crash_probability < main.min_probability)
                 => main.ret = 0

(***************************************************************************)
(* C29: the merged pair never holds an entry and an exit on one bar        *)
(***************************************************************************)
\* C29: in the pair generate_signals returns, no bar has entry and exit both
\* true after the long and the short side are merged; so the signal column of
\* run_experiment is +1 exactly on the entry bars and -1 exactly on the exit
\* bars.
C29_EntryExitDisjoint ==
    \A i \in 1..Len(runs) :
        /\ ~(runs[i].entry_signal /\ runs[i].exit_signal)
        /\ (runs[i].signal = 1) <=> runs[i].entry_signal
        /\ (runs[i].signal = -1) <=> runs[i].exit_signal

(***************************************************************************)
(* C30: an entry bar carries a defined size and stop                       *)
(***************************************************************************)
\* run_backtest (backtest.py l. 115-118): the size and the stop handed to the
\* portfolio simulator, NaN replaced by 1.0 and 3.0 percent.
BacktestInputs(r) ==
    [entries |-> r.entry_signal,
     exits |-> r.exit_signal,
     position_sizes |-> IF IsNaN(r.position_size) THEN 10000 ELSE r.position_size,
     stop_percents |-> IF IsNaN(r.stop_loss_pct) THEN 30000 ELSE r.stop_loss_pct]

\* C30: every bar with entry_signal true has a defined position_size within
\* [0.1, 0.8] and a defined stop_loss_pct within [1.0, 8.0], so the size and
\* the stop the simulator applies to an entry are the strategy's own values.
C30_EntrySizedAndStopped ==
    \A i \in 1..Len(runs) :
        runs[i].entry_signal
            => /\ ~IsNaN(runs[i].position_size)
               /\ runs[i].position_size >= 1000 /\ runs[i].position_size =< 8000
               /\ ~IsNaN(runs[i].stop_loss_pct)
               /\ runs[i].stop_loss_pct >= 10000 /\ runs[i].stop_loss_pct =< 80000
               /\ BacktestInputs(runs[i]).position_sizes = runs[i].position_size
               /\ BacktestInputs(runs[i]).stop_percents = runs[i].stop_loss_pct

(***************************************************************************)
(* C22: feature columns are append-only                                    *)
(***************************************************************************)
\* C22: once a component has written a feature column no later stage
\* overwrites it: in the frame run_experiment returns, every feature column
\* (returns, funding_rate, ...) holds the values its component wrote.  (The
\* caller's table is only ever copied: no statement assigns to it.)
C22_FeatureColumnsAppendOnly ==
    \A i \in 1..Len(runs) :
        \A c \in FeatureColumns :
            c \in runs[i].columns /\ runs[i].writer[c] = "FuturesTradingStrategy"

====
